---- MODULE Spec2Model ----
(***************************************************************************)
(* A model of the BrainCell backend's tutoring turn:                       *)
(*   - fuse_cognitive_signals        (app/orchestrator.py)                 *)
(*   - analyze_session and helpers   (app/api/routes/session.py)           *)
(*   - track_concept_interaction     (app/cognitive_modules/               *)
(*                                    knowledge_gaps.py)                   *)
(* Enum members are modelled by their Python values (strings); None is the *)
(* string "None".  mastery_level is kept in hundredths (0.5 is 50), so the *)
(* steps 0.1 and 0.05 are 10 and 5 and the clamp range [0.0, 1.0] is       *)
(* 0..100.                                                                 *)
(***************************************************************************)
EXTENDS Integers, Sequences, FiniteSets, TLC

VARIABLES
    signals,            \* SpecFuse: the arguments of the last fuse call
    fused,              \* SpecFuse: the state that call returned
    concept_mastery,    \* committed rows of table concept_mastery (id = index)
    session_transcripts,\* committed rows of table session_transcripts
    usage_metrics,      \* committed rows of table usage_metrics
    students,           \* committed rows of table students
    session,            \* per request: the AsyncSession's uncommitted writes
    pc,                 \* per request: the await it is suspended at
    turn,               \* per request: analyze_session's locals
    track,              \* per request: track_concept_interaction's locals
    result,             \* per request: what analyze_session handed its caller
    recorded,           \* history: per key the track calls that returned
                        \* normally; SpecFuse: the request fused before
    faults              \* store faults injected so far

vars == <<signals, fused, concept_mastery, session_transcripts, usage_metrics,
          students, session, pc, turn, track, result, recorded, faults>>

----------------------------------------------------------------------------
(* Bounds of the model.                                                    *)

MaxRephrase == 3
MaxBackspace == 22
NumCallers == 3
MaxCalls == 4
MaxSeqCalls == 7
NumTurns == 1
MaxFaults == 2

MaxTopicLen == 3
MaxNodes == 2
MaxEdges == 1
MaxHistory == 9
MaxMixedHistory == 3
MaxGapCalls == 4
NumJoiners == 2
MaxJoins == 3

----------------------------------------------------------------------------
(* app/api/schemas.py                                                      *)

None == "None"

CognitiveState == {"FOCUSED", "CONFUSED", "FRUSTRATED"}

ResponseType == {"text", "diagram", "code"}

FacialExpression == {"fear", "sad", "angry", "surprise", "neutral", "happy"}

VocalState == {"calm", "hesitant", "stressed", "frustrated"}

NodeType == {"concept", "mastered", "note"}

----------------------------------------------------------------------------
(* app/orchestrator.py                                                     *)

\* A slip of "score = 3" for "score += 3" in the second backspace tier.
fuse_backspace_overwrite(rephrase_count, backspace_count, vocal_state, facial_expression) ==
    IF vocal_state = "frustrated" THEN "FRUSTRATED"
    ELSE
      LET s1 == IF rephrase_count > 1 THEN 3 ELSE 0
          s2 == IF backspace_count > 10 THEN s1 + 2 ELSE s1
          s3 == IF backspace_count > 20 THEN 3 ELSE s2
          s4 == IF vocal_state = "hesitant" THEN s3 + 3 ELSE s3
          s5 == IF vocal_state = "stressed" THEN s4 + 4 ELSE s4
          score == IF facial_expression \in {"fear", "sad", "angry"} THEN s5 + 3
                   ELSE IF facial_expression = "surprise" THEN s5 + 1
                   ELSE s5
      IN  IF score >= 8 THEN "FRUSTRATED"
          ELSE IF score >= 4 THEN "CONFUSED" ELSE "FOCUSED"

\* The immediate override left out: a frustrated voice adds nothing.
fuse_no_override(rephrase_count, backspace_count, vocal_state, facial_expression) ==
    LET s1 == IF rephrase_count > 1 THEN 3 ELSE 0
        s2 == IF backspace_count > 10 THEN s1 + 2 ELSE s1
        s3 == IF backspace_count > 20 THEN s2 + 3 ELSE s2
        s4 == IF vocal_state = "hesitant" THEN s3 + 3 ELSE s3
        s5 == IF vocal_state = "stressed" THEN s4 + 4 ELSE s4
        score == IF facial_expression \in {"fear", "sad", "angry"} THEN s5 + 3
                 ELSE IF facial_expression = "surprise" THEN s5 + 1
                 ELSE s5
    IN  IF score >= 8 THEN "FRUSTRATED"
        ELSE IF score >= 4 THEN "CONFUSED" ELSE "FOCUSED"

\* The thresholds compared with > instead of >=.
fuse_strict_thresholds(rephrase_count, backspace_count, vocal_state, facial_expression) ==
    IF vocal_state = "frustrated" THEN "FRUSTRATED"
    ELSE
      LET s1 == IF rephrase_count > 1 THEN 3 ELSE 0
          s2 == IF backspace_count > 10 THEN s1 + 2 ELSE s1
          s3 == IF backspace_count > 20 THEN s2 + 3 ELSE s2
          s4 == IF vocal_state = "hesitant" THEN s3 + 3 ELSE s3
          s5 == IF vocal_state = "stressed" THEN s4 + 4 ELSE s4
          score == IF facial_expression \in {"fear", "sad", "angry"} THEN s5 + 3
                   ELSE IF facial_expression = "surprise" THEN s5 + 1
                   ELSE s5
      IN  IF score > 8 THEN "FRUSTRATED"
          ELSE IF score > 4 THEN "CONFUSED" ELSE "FOCUSED"

\* fuse_cognitive_signals: the override, then the score accumulated in the
\* order of the code's statements, then the two thresholds.
fuse_cognitive_signals(rephrase_count, backspace_count, vocal_state, facial_expression) ==
    IF vocal_state = "frustrated" THEN "FRUSTRATED"
    ELSE
      LET s1 == IF rephrase_count > 1 THEN 3 ELSE 0
          s2 == IF backspace_count > 10 THEN s1 + 2 ELSE s1
          s3 == IF backspace_count > 20 THEN s2 + 3 ELSE s2
          s4 == IF vocal_state = "hesitant" THEN s3 + 3 ELSE s3
          s5 == IF vocal_state = "stressed" THEN s4 + 4 ELSE s4
          score == IF facial_expression \in {"fear", "sad", "angry"} THEN s5 + 3
                   ELSE IF facial_expression = "surprise" THEN s5 + 1
                   ELSE s5
      IN  IF score >= 8 THEN "FRUSTRATED"
          ELSE IF score >= 4 THEN "CONFUSED" ELSE "FOCUSED"

----------------------------------------------------------------------------
(* The record store.  A table is the sequence of its committed rows, a     *)
(* row's autoincrement id being its index.  An AsyncSession is the         *)
(* sequence of writes it has not committed yet: commit applies them to the *)
(* tables in order, rollback drops them.                                   *)

\* Topics, labels and node ids are Python strings the code transforms, so
\* they are sequences of characters.
Loops == <<"L", "o", "o", "p", "s">>

GeneralExploration ==
    <<"G", "e", "n", "e", "r", "a", "l", " ",
      "E", "x", "p", "l", "o", "r", "a", "t", "i", "o", "n">>

General == <<"G", "e", "n", "e", "r", "a", "l">>

NoText == <<>>

Upper == <<"A", "B", "C", "D", "E", "F", "G", "H", "I", "J", "K", "L", "M",
           "N", "O", "P", "Q", "R", "S", "T", "U", "V", "W", "X", "Y", "Z">>

Lower == <<"a", "b", "c", "d", "e", "f", "g", "h", "i", "j", "k", "l", "m",
           "n", "o", "p", "q", "r", "s", "t", "u", "v", "w", "x", "y", "z">>

\* str.lower(), character by character
lower(text) ==
    [i \in DOMAIN text |->
        IF \E j \in DOMAIN Upper : Upper[j] = text[i]
        THEN Lower[CHOOSE j \in DOMAIN Upper : Upper[j] = text[i]]
        ELSE text[i]]

\* str.replace(old, new) for a one-character old and new
replace(text, old, new) ==
    [i \in DOMAIN text |-> IF text[i] = old THEN new ELSE text[i]]

\* str.replace(old, '') for a one-character old
remove(text, old) ==
    SelectSeq(text, LAMBDA c : c # old)

\* text[:n]
prefix(text, n) ==
    SubSeq(text, 1, IF Len(text) < n THEN Len(text) ELSE n)

\* f"node_{topic.lower().replace(' ', '_')}"
node_id(topic) ==
    <<"n", "o", "d", "e", "_">> \o replace(lower(topic), " ", "_")

Students == {"s1", "s2"}

Concepts == {node_id(Loops), node_id(GeneralExploration)}

ConceptNames == {Loops, GeneralExploration}

Topics == {Loops, GeneralExploration}

NoWrites == <<>>

\* db.add(obj)
db_add(table, row) == [op |-> "add", table |-> table, id |-> 0, values |-> row]

\* update(ConceptMastery).where(ConceptMastery.id == id).values(**updates)
db_update(id, updates) ==
    [op |-> "update", table |-> "concept_mastery", id |-> id, values |-> updates]

\* UPDATE ... SET: the columns named in values are overwritten, the others kept.
set_columns(row, values) ==
    [c \in DOMAIN row |-> IF c \in DOMAIN values THEN values[c] ELSE row[c]]

RECURSIVE commit_table(_, _, _)
\* The rows of one table after the writes of a session are committed.
commit_table(table, rows, writes) ==
    IF writes = <<>> THEN rows
    ELSE LET w == Head(writes)
             next == IF w.table # table THEN rows
                     ELSE IF w.op = "add" THEN Append(rows, w.values)
                     ELSE IF w.id \in DOMAIN rows
                          THEN [rows EXCEPT ![w.id] = set_columns(rows[w.id], w.values)]
                     ELSE rows
         IN  commit_table(table, next, Tail(writes))

\* select(ConceptMastery).where(student_id == ..., concept_id == ...): the ids
\* of the committed rows of the key.
select_mastery(rows, student_id, concept_id) ==
    {i \in DOMAIN rows : rows[i].student_id = student_id /\ rows[i].concept_id = concept_id}

----------------------------------------------------------------------------
(* app/cognitive_modules/knowledge_gaps.py: track_concept_interaction      *)

\* The update branch without min(1.0, ...) and max(0.0, ...).
mastery_unclamped(cognitive_state, mastery_level) ==
    IF cognitive_state = "FOCUSED" THEN mastery_level + 10
    ELSE IF cognitive_state = "CONFUSED" THEN mastery_level - 5
    ELSE mastery_level - 10

\* new_mastery of the update branch, in hundredths.
new_mastery(cognitive_state, mastery_level) ==
    LET min(a, b) == IF a < b THEN a ELSE b
        max(a, b) == IF a > b THEN a ELSE b
    IN  IF cognitive_state = "FOCUSED" THEN min(100, mastery_level + 10)
        ELSE IF cognitive_state = "CONFUSED" THEN max(0, mastery_level - 5)
        ELSE max(0, mastery_level - 10)

\* Updates that count every struggle under both counters.
updates_both_counters(existing, cognitive_state) ==
    IF cognitive_state = "FOCUSED"
    THEN [attempts |-> existing.attempts + 1,
          mastery_level |-> new_mastery(cognitive_state, existing.mastery_level)]
    ELSE [attempts |-> existing.attempts + 1,
          mastery_level |-> new_mastery(cognitive_state, existing.mastery_level),
          confused_count |-> existing.confused_count + 1,
          frustrated_count |-> existing.frustrated_count + 1]

\* The updates dict of the branch "if existing".
mastery_updates(existing, cognitive_state) ==
    LET base == [attempts |-> existing.attempts + 1,
                 mastery_level |-> new_mastery(cognitive_state, existing.mastery_level)]
    IN  IF cognitive_state = "CONFUSED"
        THEN [attempts |-> base.attempts, mastery_level |-> base.mastery_level,
              confused_count |-> existing.confused_count + 1]
        ELSE IF cognitive_state = "FRUSTRATED"
        THEN [attempts |-> base.attempts, mastery_level |-> base.mastery_level,
              frustrated_count |-> existing.frustrated_count + 1]
        ELSE base

\* A new record that starts at the neutral 0.3 whatever the state.
initial_mastery_neutral(student_id, concept_id, concept_name, topic, cognitive_state) ==
    [student_id |-> student_id,
     concept_id |-> concept_id,
     concept_name |-> concept_name,
     topic |-> topic,
     mastery_level |-> 30,
     attempts |-> 1,
     confused_count |-> IF cognitive_state = "CONFUSED" THEN 1 ELSE 0,
     frustrated_count |-> IF cognitive_state = "FRUSTRATED" THEN 1 ELSE 0]

\* The ConceptMastery object of the branch "else".
initial_mastery(student_id, concept_id, concept_name, topic, cognitive_state) ==
    [student_id |-> student_id,
     concept_id |-> concept_id,
     concept_name |-> concept_name,
     topic |-> topic,
     mastery_level |-> IF cognitive_state = "FOCUSED" THEN 50
                       ELSE IF cognitive_state = "CONFUSED" THEN 20
                       ELSE IF cognitive_state = "FRUSTRATED" THEN 10
                       ELSE 30,
     attempts |-> 1,
     confused_count |-> IF cognitive_state = "CONFUSED" THEN 1 ELSE 0,
     frustrated_count |-> IF cognitive_state = "FRUSTRATED" THEN 1 ELSE 0]

NoCall == [student_id |-> None, concept_id |-> NoText, concept_name |-> NoText,
           topic |-> NoText, cognitive_state |-> None, existing |-> None]

\* One more call that returned normally, counted under its key.
record_call(log, t) ==
    LET k == <<t.student_id, t.concept_id>>
    IN  [log EXCEPT !.done[k] =
            [calls |-> @.calls + 1,
             confused |-> @.confused + (IF t.cognitive_state = "CONFUSED" THEN 1 ELSE 0),
             frustrated |-> @.frustrated + (IF t.cognitive_state = "FRUSTRATED" THEN 1 ELSE 0)]]

\* await db.execute(select(...)); result.scalar_one_or_none(), and the code up
\* to the next await: the updates of a found row are computed from it, a new
\* row is handed to db.add.  More than one row of the key raises
\* MultipleResultsFound.
TrackSelect(p) ==
    /\ pc[p] = "track_select"
    /\ LET t == track[p]
           found == select_mastery(concept_mastery, t.student_id, t.concept_id)
       IN  IF Cardinality(found) > 1
           THEN /\ pc' = [pc EXCEPT ![p] = "track_raised"]
                /\ track' = [track EXCEPT ![p] = NoCall]
                /\ UNCHANGED session
           ELSE IF found = {}
           THEN /\ session' = [session EXCEPT ![p] = Append(@,
                       db_add("concept_mastery",
                              initial_mastery(t.student_id, t.concept_id, t.concept_name,
                                              t.topic, t.cognitive_state)))]
                /\ pc' = [pc EXCEPT ![p] = "track_commit"]
                /\ UNCHANGED track
           ELSE /\ LET i == CHOOSE j \in found : TRUE
                   IN  track' = [track EXCEPT ![p].existing =
                                    [id |-> i,
                                     mastery_level |-> concept_mastery[i].mastery_level,
                                     attempts |-> concept_mastery[i].attempts,
                                     confused_count |-> concept_mastery[i].confused_count,
                                     frustrated_count |-> concept_mastery[i].frustrated_count]]
                /\ pc' = [pc EXCEPT ![p] = "track_update"]
                /\ UNCHANGED session
    /\ UNCHANGED <<students, signals, fused, concept_mastery, session_transcripts, usage_metrics,
                   turn, result, recorded, faults>>

\* await db.execute(update(ConceptMastery).where(id == existing.id).values(**updates))
TrackUpdate(p) ==
    /\ pc[p] = "track_update"
    /\ session' = [session EXCEPT ![p] = Append(@,
           db_update(track[p].existing.id,
                     mastery_updates(track[p].existing, track[p].cognitive_state)))]
    /\ pc' = [pc EXCEPT ![p] = "track_commit"]
    /\ UNCHANGED <<students, signals, fused, concept_mastery, session_transcripts, usage_metrics,
                   turn, track, result, recorded, faults>>

\* await db.commit() at the end of track_concept_interaction: everything the
\* session holds is committed, whoever wrote it.
TrackCommit(p) ==
    /\ pc[p] = "track_commit"
    /\ concept_mastery' = commit_table("concept_mastery", concept_mastery, session[p])
    /\ session_transcripts' = commit_table("session_transcripts", session_transcripts, session[p])
    /\ usage_metrics' = commit_table("usage_metrics", usage_metrics, session[p])
    /\ session' = [session EXCEPT ![p] = NoWrites]
    /\ recorded' = record_call(recorded, track[p])
    /\ track' = [track EXCEPT ![p] = NoCall]
    /\ pc' = [pc EXCEPT ![p] = "track_done"]
    /\ UNCHANGED <<students, signals, fused, turn, result, faults>>

\* A store operation of request p raises, within the budget of injected faults.
fault ==
    /\ faults < MaxFaults
    /\ faults' = faults + 1

\* await db.execute(select(...)) raises.
TrackSelectFail(p) ==
    /\ pc[p] = "track_select"
    /\ fault
    /\ turn' = [turn EXCEPT ![p].store_failed = TRUE]
    /\ track' = [track EXCEPT ![p] = NoCall]
    /\ pc' = [pc EXCEPT ![p] = "track_raised"]
    /\ UNCHANGED <<students, signals, fused, concept_mastery, session_transcripts, usage_metrics,
                   session, result, recorded>>

\* await db.execute(update(...)) raises.
TrackUpdateFail(p) ==
    /\ pc[p] = "track_update"
    /\ fault
    /\ turn' = [turn EXCEPT ![p].store_failed = TRUE]
    /\ track' = [track EXCEPT ![p] = NoCall]
    /\ pc' = [pc EXCEPT ![p] = "track_raised"]
    /\ UNCHANGED <<students, signals, fused, concept_mastery, session_transcripts, usage_metrics,
                   session, result, recorded>>

\* await db.commit() of track_concept_interaction raises: the transaction is
\* lost with everything the session held.
TrackCommitFail(p) ==
    /\ pc[p] = "track_commit"
    /\ fault
    /\ turn' = [turn EXCEPT ![p].store_failed = TRUE]
    /\ session' = [session EXCEPT ![p] = NoWrites]
    /\ track' = [track EXCEPT ![p] = NoCall]
    /\ pc' = [pc EXCEPT ![p] = "track_raised"]
    /\ UNCHANGED <<students, signals, fused, concept_mastery, session_transcripts, usage_metrics,
                   result, recorded>>

----------------------------------------------------------------------------
(* app/api/routes/session.py                                               *)

\* meta.get(key) of a request without the key: None, falsy like the empty string.
Absent == NoText

NoEdges == <<>>

KnowledgeGraphNode(id, type, label, mastered) ==
    [id |-> id, type |-> type, label |-> label, mastered |-> mastered]

\* The modality of the fallback's if / elif / else.
fallback_modality(cognitive_state) ==
    IF cognitive_state = "FOCUSED" THEN "text"
    ELSE IF cognitive_state = "CONFUSED" THEN "diagram"
    ELSE "code"

\* The text the fallback's template is filled with: context.topic, or the
\* topic_safe of the diagram and of the code example.
fallback_topic(topic, cognitive_state) ==
    IF cognitive_state = "FOCUSED" THEN topic
    ELSE IF cognitive_state = "CONFUSED"
    THEN prefix(replace(remove(topic, "\""), "\n", " "), 50)
    ELSE prefix(replace(remove(remove(topic, "\""), "'"), "\n", " "), 30)

\* A fallback whose node id carries the state.
fallback_id_by_state(topic, cognitive_state) ==
    [responseType |-> fallback_modality(cognitive_state),
     content |-> [template |-> "recap", topic |-> topic],
     cognitiveState |-> cognitive_state,
     knowledgeGraphDelta |->
        [nodes |-> <<KnowledgeGraphNode(<<cognitive_state>> \o node_id(topic),
                                        "concept", topic, FALSE)>>,
         edges |-> NoEdges],
     metrics |-> None]

\* _fallback_response(context, cognitive_state); content is the template
\* chosen and the text it is filled with.
fallback_response(topic, cognitive_state) ==
    [responseType |-> fallback_modality(cognitive_state),
     content |-> [template |-> IF cognitive_state = "FOCUSED" THEN "recap"
                               ELSE IF cognitive_state = "CONFUSED" THEN "mermaid"
                               ELSE "explore",
                  topic |-> fallback_topic(topic, cognitive_state)],
     cognitiveState |-> cognitive_state,
     knowledgeGraphDelta |->
        [nodes |-> <<KnowledgeGraphNode(node_id(topic), "concept", topic, FALSE)>>,
         edges |-> NoEdges],
     metrics |-> None]

\* The response of a turn that has none yet.
NoResponse == fallback_response(General, "FOCUSED")

\* AIResponse(**candidate): the fields pass their enum and shape constraints.
valid_response(candidate) ==
    /\ {"responseType", "content", "cognitiveState", "knowledgeGraphDelta"}
          \subseteq DOMAIN candidate
    /\ candidate["responseType"] \in ResponseType
    /\ candidate["cognitiveState"] \in CognitiveState
    /\ \A i \in DOMAIN candidate["knowledgeGraphDelta"].nodes :
          candidate["knowledgeGraphDelta"].nodes[i].type \in NodeType
    /\ \A i \in DOMAIN candidate["knowledgeGraphDelta"].edges :
          {"id", "source", "target"}
              \subseteq DOMAIN candidate["knowledgeGraphDelta"].edges[i]

\* KnowledgeGraphEdge(**edge): label is None unless given.
KnowledgeGraphEdge(edge) ==
    [id |-> edge["id"], source |-> edge["source"], target |-> edge["target"],
     label |-> IF "label" \in DOMAIN edge THEN edge["label"] ELSE None]

\* KnowledgeGraphDelta(**delta): the nodes and the edges, typed, in order.
KnowledgeGraphDelta(delta) ==
    [nodes |-> [i \in DOMAIN delta.nodes |->
                   KnowledgeGraphNode(delta.nodes[i].id, delta.nodes[i].type,
                                      delta.nodes[i].label, delta.nodes[i].mastered)],
     edges |-> [i \in DOMAIN delta.edges |-> KnowledgeGraphEdge(delta.edges[i])]]

\* candidate.setdefault(key, value) / "if key not in candidate".
setdefault(candidate, key, value) ==
    IF key \in DOMAIN candidate THEN candidate
    ELSE [k \in DOMAIN candidate \cup {key} |->
             IF k = key THEN value ELSE candidate[k]]

\* A parse whose default for cognitiveState is FOCUSED.
parse_defaults_to_focused(candidate, default_state) ==
    LET c1 == setdefault(candidate, "knowledgeGraphDelta", [nodes |-> <<>>, edges |-> NoEdges])
        c2 == setdefault(c1, "responseType", "text")
        c3 == setdefault(c2, "cognitiveState", "FOCUSED")
    IN  IF valid_response(c3)
        THEN [ok |-> TRUE,
              response |-> [responseType |-> c3["responseType"],
                            content |-> c3["content"],
                            cognitiveState |-> c3["cognitiveState"],
                            knowledgeGraphDelta |->
                                KnowledgeGraphDelta(c3["knowledgeGraphDelta"]),
                            metrics |-> IF "metrics" \in DOMAIN c3
                                        THEN c3["metrics"] ELSE None]]
        ELSE [ok |-> FALSE, response |-> NoResponse]

\* A parse that sets cognitiveState to the default whatever the candidate holds.
parse_overwrites_state(candidate, default_state) ==
    LET c1 == setdefault(candidate, "knowledgeGraphDelta", [nodes |-> <<>>, edges |-> NoEdges])
        c2 == setdefault(c1, "responseType", "text")
    IN  IF valid_response(setdefault(c2, "cognitiveState", default_state))
        THEN [ok |-> TRUE,
              response |-> [responseType |-> c2["responseType"],
                            content |-> c2["content"],
                            cognitiveState |-> default_state,
                            knowledgeGraphDelta |->
                                KnowledgeGraphDelta(c2["knowledgeGraphDelta"]),
                            metrics |-> IF "metrics" \in DOMAIN c2
                                        THEN c2["metrics"] ELSE None]]
        ELSE [ok |-> FALSE, response |-> NoResponse]

\* _parse_llm_payload(raw, default_state) on the object _extract_json_object
\* recovered: the three defaults, then the typed response, or the ValueError.
parse_llm_payload(candidate, default_state) ==
    LET c1 == setdefault(candidate, "knowledgeGraphDelta", [nodes |-> <<>>, edges |-> NoEdges])
        c2 == setdefault(c1, "responseType", "text")
        c3 == setdefault(c2, "cognitiveState", default_state)
    IN  IF valid_response(c3)
        THEN [ok |-> TRUE,
              response |-> [responseType |-> c3["responseType"],
                            content |-> c3["content"],
                            cognitiveState |-> c3["cognitiveState"],
                            knowledgeGraphDelta |->
                                KnowledgeGraphDelta(c3["knowledgeGraphDelta"]),
                            metrics |-> IF "metrics" \in DOMAIN c3
                                        THEN c3["metrics"] ELSE None]]
        ELSE [ok |-> FALSE, response |-> NoResponse]

\* topic = meta.get("topic") or meta.get("subject") or "General Exploration"
context_topic(meta_topic) ==
    IF meta_topic = Absent THEN GeneralExploration ELSE meta_topic

\* The analytics dict attached as ai_response.metrics (no snapshot and no
\* audio in the requests of the model, so the labels are the context's).
analytics(payload) ==
    [facial_expression |-> payload.facial_expression,
     vocal_state |-> None,
     rephraseCount |-> payload.rephrase_count,
     backspaceCount |-> payload.backspace_count]

NoPayload == [session_id |-> None, rephrase_count |-> 0, backspace_count |-> 0,
              vocal_state |-> None, facial_expression |-> None,
              topic |-> Absent, history |-> "objects"]

\* The store before any turn.
NoStore == [concept_mastery |-> <<>>, session_transcripts |-> <<>>, usage_metrics |-> <<>>]

\* store_failed is history: a store operation of the persistence step raised;
\* so is committed: the commit that ends the persistence step returned; and
\* before: the committed store when the turn began.
NoTurn == [payload |-> NoPayload, cognitive_state |-> None, topic |-> NoText,
           ai_response |-> NoResponse, success |-> 1, node |-> 0,
           store_failed |-> FALSE, committed |-> FALSE, before |-> NoStore]

NoResult == [kind |-> "pending", response |-> NoResponse]

\* SessionTranscript(...) of _store_transcript
transcript_row(t) ==
    [session_id |-> t.payload.session_id,
     vocal_state |-> t.payload.vocal_state,
     facial_expression |-> t.payload.facial_expression,
     cognitive_state |-> t.ai_response.cognitiveState,
     response_type |-> t.ai_response.responseType,
     response_content |-> t.ai_response.content,
     knowledge_graph_delta |-> t.ai_response.knowledgeGraphDelta,
     success |-> t.success]

\* UsageMetrics(...) of _store_metrics
metrics_row(t) ==
    [session_id |-> t.payload.session_id, endpoint |-> "/analyze", success |-> t.success]

\* Arguments that name the first node of the response for every node.
track_args_first_node(t, node) ==
    [student_id |-> t.payload.session_id,
     concept_id |-> t.ai_response.knowledgeGraphDelta.nodes[1].id,
     concept_name |-> t.ai_response.knowledgeGraphDelta.nodes[1].label,
     topic |-> t.topic,
     cognitive_state |-> t.ai_response.cognitiveState,
     existing |-> None]

\* The arguments analyze_session passes for the node-th node of the response.
track_args(t, node) ==
    [student_id |-> t.payload.session_id,
     concept_id |-> t.ai_response.knowledgeGraphDelta.nodes[node].id,
     concept_name |-> t.ai_response.knowledgeGraphDelta.nodes[node].label,
     topic |-> t.topic,
     cognitive_state |-> t.ai_response.cognitiveState,
     existing |-> None]

\* analyze_session up to "await client.complete": the fusion, the context
\* and the prompt.
Begin(p, payload) ==
    /\ pc[p] = "idle"
    /\ payload.history = "objects"
    /\ turn' = [turn EXCEPT ![p] =
           [payload |-> payload,
            cognitive_state |-> fuse_cognitive_signals(payload.rephrase_count,
                                    payload.backspace_count, payload.vocal_state,
                                    payload.facial_expression),
            topic |-> context_topic(payload.topic),
            ai_response |-> NoResponse, success |-> 1, node |-> 0,
            store_failed |-> FALSE, committed |-> FALSE,
            before |-> [concept_mastery |-> concept_mastery,
                        session_transcripts |-> session_transcripts,
                        usage_metrics |-> usage_metrics]]]
    /\ pc' = [pc EXCEPT ![p] = "complete"]
    /\ UNCHANGED <<students, signals, fused, concept_mastery, session_transcripts, usage_metrics,
                   session, track, result, recorded, faults>>

\* _build_cognitive_context raises: meta["history"] is a JSON array with an
\* element that is no object, and entry.get is an AttributeError that
\* _parse_history does not catch.  The outer handler takes over.
BeginRaises(p, payload) ==
    /\ pc[p] = "idle"
    /\ payload.history = "not_objects"
    /\ turn' = [turn EXCEPT ![p] =
           [payload |-> payload,
            cognitive_state |-> fuse_cognitive_signals(payload.rephrase_count,
                                    payload.backspace_count, payload.vocal_state,
                                    payload.facial_expression),
            topic |-> None,
            ai_response |-> NoResponse, success |-> 1, node |-> 0,
            store_failed |-> FALSE, committed |-> FALSE,
            before |-> [concept_mastery |-> concept_mastery,
                        session_transcripts |-> session_transcripts,
                        usage_metrics |-> usage_metrics]]]
    /\ pc' = [pc EXCEPT ![p] = "outer_rollback"]
    /\ UNCHANGED <<students, signals, fused, concept_mastery, session_transcripts, usage_metrics,
                   session, track, result, recorded, faults>>

\* client.complete returns text from which a JSON object is recovered:
\* _parse_llm_payload, then the metrics are attached.  A payload that does
\* not validate raises into the except branch: the fallback, success = 0.
Complete(p, candidate) ==
    /\ pc[p] = "complete"
    /\ LET parsed == parse_llm_payload(candidate, turn[p].cognitive_state)
           response == IF parsed.ok THEN parsed.response
                       ELSE fallback_response(turn[p].topic, turn[p].cognitive_state)
       IN  turn' = [turn EXCEPT
                       ![p].ai_response = [response EXCEPT !.metrics = analytics(turn[p].payload)],
                       ![p].success = IF parsed.ok THEN 1 ELSE 0]
    /\ pc' = [pc EXCEPT ![p] = "persist"]
    /\ UNCHANGED <<students, signals, fused, concept_mastery, session_transcripts, usage_metrics,
                   session, track, result, recorded, faults>>

\* client.complete raises (its retries are used up), or its text holds no
\* JSON object: the except branch builds the fallback, success = 0.
CompleteFails(p) ==
    /\ pc[p] = "complete"
    /\ turn' = [turn EXCEPT
                   ![p].ai_response =
                       [fallback_response(turn[p].topic, turn[p].cognitive_state)
                           EXCEPT !.metrics = analytics(turn[p].payload)],
                   ![p].success = 0]
    /\ pc' = [pc EXCEPT ![p] = "persist"]
    /\ UNCHANGED <<students, signals, fused, concept_mastery, session_transcripts, usage_metrics,
                   session, track, result, recorded, faults>>

\* The node loop of analyze_session: the next node's track call, or, the
\* nodes done, the commit.
next_node(p, t, node) ==
    IF node <= Len(t.ai_response.knowledgeGraphDelta.nodes)
    THEN /\ track' = [track EXCEPT ![p] = track_args(t, node)]
         /\ turn' = [turn EXCEPT ![p].node = node]
         /\ pc' = [pc EXCEPT ![p] = "track_select"]
    ELSE /\ turn' = [turn EXCEPT ![p].node = 0]
         /\ pc' = [pc EXCEPT ![p] = "commit"]
         /\ UNCHANGED track

\* _store_transcript and _store_metrics hand their rows to the session, and
\* the node loop starts.
Persist(p) ==
    /\ pc[p] = "persist"
    /\ session' = [session EXCEPT ![p] =
           @ \o <<db_add("session_transcripts", transcript_row(turn[p])),
                  db_add("usage_metrics", metrics_row(turn[p]))>>]
    /\ next_node(p, turn[p], 1)
    /\ UNCHANGED <<students, signals, fused, concept_mastery, session_transcripts, usage_metrics,
                   result, recorded, faults>>

\* _store_transcript (stored = 0) or _store_metrics (stored = 1) raises.
PersistFails(p, stored) ==
    /\ pc[p] = "persist"
    /\ fault
    /\ turn' = [turn EXCEPT ![p].store_failed = TRUE]
    /\ session' = [session EXCEPT ![p] =
           IF stored = 1
           THEN @ \o <<db_add("session_transcripts", transcript_row(turn[p]))>>
           ELSE @]
    /\ pc' = [pc EXCEPT ![p] = "rollback"]
    /\ UNCHANGED <<students, signals, fused, concept_mastery, session_transcripts, usage_metrics,
                   track, result, recorded>>

\* track_concept_interaction returned, or raised into "except Exception as
\* track_exc", which logs a warning: the loop goes on either way.
TrackReturns(p) ==
    /\ pc[p] \in {"track_done", "track_raised"}
    /\ next_node(p, turn[p], turn[p].node + 1)
    /\ UNCHANGED <<students, signals, fused, concept_mastery, session_transcripts, usage_metrics,
                   session, result, recorded, faults>>

\* await db.commit(); return ai_response
Commit(p) ==
    /\ pc[p] = "commit"
    /\ concept_mastery' = commit_table("concept_mastery", concept_mastery, session[p])
    /\ session_transcripts' = commit_table("session_transcripts", session_transcripts, session[p])
    /\ usage_metrics' = commit_table("usage_metrics", usage_metrics, session[p])
    /\ session' = [session EXCEPT ![p] = NoWrites]
    /\ result' = [result EXCEPT ![p] = [kind |-> "response", response |-> turn[p].ai_response]]
    /\ turn' = [turn EXCEPT ![p].committed = TRUE]
    /\ pc' = [pc EXCEPT ![p] = "done"]
    /\ UNCHANGED <<students, signals, fused, track, recorded, faults>>

\* await db.commit() raises into "except Exception as db_exc": the
\* transaction is lost with everything the session held.
CommitFails(p) ==
    /\ pc[p] = "commit"
    /\ fault
    /\ turn' = [turn EXCEPT ![p].store_failed = TRUE]
    /\ session' = [session EXCEPT ![p] = NoWrites]
    /\ pc' = [pc EXCEPT ![p] = "rollback"]
    /\ UNCHANGED <<students, signals, fused, concept_mastery, session_transcripts, usage_metrics,
                   track, result, recorded>>

\* await db.rollback() of the persistence handler; return ai_response
Rollback(p) ==
    /\ pc[p] = "rollback"
    /\ session' = [session EXCEPT ![p] = NoWrites]
    /\ result' = [result EXCEPT ![p] = [kind |-> "response", response |-> turn[p].ai_response]]
    /\ pc' = [pc EXCEPT ![p] = "done"]
    /\ UNCHANGED <<students, signals, fused, concept_mastery, session_transcripts, usage_metrics,
                   turn, track, recorded, faults>>

\* That rollback raises: the exception leaves the persistence handler and is
\* caught by the outer "except Exception as exc".
RollbackFails(p) ==
    /\ pc[p] = "rollback"
    /\ fault
    /\ pc' = [pc EXCEPT ![p] = "outer_rollback"]
    /\ UNCHANGED <<students, signals, fused, concept_mastery, session_transcripts, usage_metrics,
                   session, turn, track, result, recorded>>

\* The outer handler: await db.rollback(), then the fallback for topic
\* "General" and state FOCUSED is returned.
OuterRollback(p) ==
    /\ pc[p] = "outer_rollback"
    /\ session' = [session EXCEPT ![p] = NoWrites]
    /\ result' = [result EXCEPT ![p] =
           [kind |-> "response", response |-> fallback_response(General, "FOCUSED")]]
    /\ pc' = [pc EXCEPT ![p] = "done"]
    /\ UNCHANGED <<students, signals, fused, concept_mastery, session_transcripts, usage_metrics,
                   turn, track, recorded, faults>>

\* The rollback of the outer handler raises: no handler is left, and the
\* exception leaves analyze_session.
OuterRollbackFails(p) ==
    /\ pc[p] = "outer_rollback"
    /\ fault
    /\ result' = [result EXCEPT ![p] = [kind |-> "raised", response |-> NoResponse]]
    /\ pc' = [pc EXCEPT ![p] = "done"]
    /\ UNCHANGED <<students, signals, fused, concept_mastery, session_transcripts, usage_metrics,
                   session, turn, track, recorded>>

----------------------------------------------------------------------------
(* SpecFuse: fuse_cognitive_signals applied to every request's signals.    *)

Vocals == VocalState \cup {None}

Facials == FacialExpression \cup {None}

NoSignals == [rephrase_count |-> 0, backspace_count |-> 0,
              vocal_state |-> None, facial_expression |-> None]

\* No request has been fused before this one.
NoFusion == [signals |-> NoSignals, fused |-> None]

\* The signals of a request and the state fuse_cognitive_signals returns for
\* them; recorded is history: the request before and its state.
fuse_request(r, b, v, f) ==
    /\ signals' = [rephrase_count |-> r, backspace_count |-> b,
                   vocal_state |-> v, facial_expression |-> f]
    /\ fused' = fuse_cognitive_signals(r, b, v, f)
    /\ recorded' = [signals |-> signals, fused |-> fused]
    /\ UNCHANGED <<students, concept_mastery, session_transcripts, usage_metrics, session, pc,
                   turn, track, result, faults>>

\* The next request of the learner: one more rephrase, the rest as before.
FuseMoreRephrase ==
    /\ signals.rephrase_count < MaxRephrase
    /\ fuse_request(signals.rephrase_count + 1, signals.backspace_count,
                    signals.vocal_state, signals.facial_expression)

\* The next request of the learner: one more backspace, the rest as before.
FuseMoreBackspace ==
    /\ signals.backspace_count < MaxBackspace
    /\ fuse_request(signals.rephrase_count, signals.backspace_count + 1,
                    signals.vocal_state, signals.facial_expression)

\* The next request of the learner: the same counts, other vocal and facial labels.
FuseOtherLabels(v, f) ==
    /\ <<v, f>> # <<signals.vocal_state, signals.facial_expression>>
    /\ fuse_request(signals.rephrase_count, signals.backspace_count, v, f)

InitFuse ==
    /\ \E r \in 0..MaxRephrase, b \in 0..MaxBackspace, v \in Vocals, f \in Facials :
          /\ signals = [rephrase_count |-> r, backspace_count |-> b,
                        vocal_state |-> v, facial_expression |-> f]
          /\ fused = fuse_cognitive_signals(r, b, v, f)
    /\ concept_mastery = <<>>
    /\ session_transcripts = <<>>
    /\ usage_metrics = <<>>
    /\ students = <<>>
    /\ session = <<>>
    /\ pc = <<>>
    /\ turn = <<>>
    /\ track = <<>>
    /\ result = <<>>
    /\ recorded = NoFusion
    /\ faults = 0

NextFuse ==
    \/ FuseMoreRephrase
    \/ FuseMoreBackspace
    \/ \E v \in Vocals, f \in Facials : FuseOtherLabels(v, f)

SpecFuse == InitFuse /\ [][NextFuse]_vars

\* The severity order FOCUSED < CONFUSED < FRUSTRATED.
Severity(state) ==
    IF state = "FOCUSED" THEN 0 ELSE IF state = "CONFUSED" THEN 1 ELSE 2

\* The rubric of the specification: the sum of the weights of the signals present.
RubricScore(sig) ==
      (IF sig.rephrase_count > 1 THEN 3 ELSE 0)
    + (IF sig.backspace_count > 10 THEN 2 ELSE 0)
    + (IF sig.backspace_count > 20 THEN 3 ELSE 0)
    + (IF sig.vocal_state = "hesitant" THEN 3 ELSE 0)
    + (IF sig.vocal_state = "stressed" THEN 4 ELSE 0)
    + (IF sig.facial_expression \in {"fear", "sad", "angry"} THEN 3 ELSE 0)
    + (IF sig.facial_expression = "surprise" THEN 1 ELSE 0)

ExampleA == [rephrase_count |-> 2, backspace_count |-> 0,
             vocal_state |-> None, facial_expression |-> None]

ExampleB == [rephrase_count |-> 2, backspace_count |-> 12,
             vocal_state |-> "hesitant", facial_expression |-> "sad"]

\* C6: a frustrated voice gives FRUSTRATED, whatever the rephrase count, the
\* backspace count and the facial expression (none included).
C6_FrustratedVoiceOverrides ==
    signals.vocal_state = "frustrated" => fused = "FRUSTRATED"

\* C6: a request with no friction and no face, fused to FOCUSED with a calm
\* voice, is fused to FRUSTRATED once the voice is frustrated.
C6_Witness ==
    /\ recorded = [signals |-> [NoSignals EXCEPT !.vocal_state = "calm"],
                   fused |-> "FOCUSED"]
    /\ signals = [NoSignals EXCEPT !.vocal_state = "frustrated"]
    /\ fused = "FRUSTRATED"

\* C7: without a frustrated voice the state is the one the rubric score gives
\* (>= 8 FRUSTRATED, else >= 4 CONFUSED, else FOCUSED); example A gives FOCUSED
\* and example B gives FRUSTRATED.
C7_RubricDecidesState ==
    /\ signals.vocal_state # "frustrated" =>
          fused = (IF RubricScore(signals) >= 8 THEN "FRUSTRATED"
                   ELSE IF RubricScore(signals) >= 4 THEN "CONFUSED"
                   ELSE "FOCUSED")
    /\ signals = ExampleA => fused = "FOCUSED"
    /\ signals = ExampleB => fused = "FRUSTRATED"

\* C7: example A has been fused, to FOCUSED, and after it, with a sad face
\* (3 + 3 = 6), to CONFUSED.
C7_Witness ==
    /\ recorded = [signals |-> ExampleA, fused |-> "FOCUSED"]
    /\ signals = [ExampleA EXCEPT !.facial_expression = "sad"]
    /\ fused = "CONFUSED"

\* C8: a request that differs from the one before only by a higher rephrase
\* count or a higher backspace count is never fused to a less severe state.
C8_MoreFrictionNeverLowers ==
    [][ ( /\ signals'.vocal_state = signals.vocal_state
          /\ signals'.facial_expression = signals.facial_expression
          /\ \/ /\ signals'.rephrase_count >= signals.rephrase_count
                /\ signals'.backspace_count = signals.backspace_count
             \/ /\ signals'.rephrase_count = signals.rephrase_count
                /\ signals'.backspace_count >= signals.backspace_count )
        => Severity(fused') >= Severity(fused) ]_vars

\* C8: the twenty-first backspace has raised the state from CONFUSED
\* (3 + 2 = 5) to FRUSTRATED (3 + 2 + 3 = 8).
C8_Witness ==
    /\ recorded = [signals |-> [NoSignals EXCEPT !.rephrase_count = 2,
                                                  !.backspace_count = 20],
                   fused |-> "CONFUSED"]
    /\ signals = [NoSignals EXCEPT !.rephrase_count = 2, !.backspace_count = 21]
    /\ fused = "FRUSTRATED"

----------------------------------------------------------------------------
(* SpecTrack: track_concept_interaction called by concurrent callers, each *)
(* with a session of its own, the calls interleaving at their awaits.      *)
(* SpecTrackSeq: one caller, one call after the other.                     *)

Keys == Students \X Concepts

NoCalls == [started |-> 0,
            done |-> [k \in Keys |-> [calls |-> 0, confused |-> 0, frustrated |-> 0]]]

\* A caller enters track_concept_interaction(db, student_id, concept_id,
\* concept_name, topic, cognitive_state).
CallTrack(p, bound, student_id, concept_id, concept_name, topic, cognitive_state) ==
    /\ pc[p] \in {"idle", "track_done", "track_raised"}
    /\ recorded.started < bound
    /\ recorded' = [recorded EXCEPT !.started = @ + 1]
    /\ track' = [track EXCEPT ![p] =
                    [student_id |-> student_id, concept_id |-> concept_id,
                     concept_name |-> concept_name, topic |-> topic,
                     cognitive_state |-> cognitive_state, existing |-> None]]
    /\ pc' = [pc EXCEPT ![p] = "track_select"]
    /\ UNCHANGED <<students, signals, fused, concept_mastery, session_transcripts, usage_metrics,
                   session, turn, result, faults>>

InitCallers(n) ==
    /\ signals = NoSignals
    /\ fused = None
    /\ concept_mastery = <<>>
    /\ session_transcripts = <<>>
    /\ usage_metrics = <<>>
    /\ students = <<>>
    /\ session = [p \in 1..n |-> NoWrites]
    /\ pc = [p \in 1..n |-> "idle"]
    /\ turn = [p \in 1..n |-> NoTurn]
    /\ track = [p \in 1..n |-> NoCall]
    /\ result = [p \in 1..n |-> NoResult]
    /\ recorded = NoCalls
    /\ faults = 0

InitTrack == InitCallers(NumCallers)

InitTrackSeq == InitCallers(1)

\* The calls the concurrent callers make: one student, every concept.
TrackArgs ==
    [student_id : {"s1"}, concept_id : Concepts, concept_name : {Loops},
     topic : {Loops}, cognitive_state : CognitiveState]

\* The calls the single caller makes.
SeqArgs ==
    [student_id : {"s1"}, concept_id : Concepts, concept_name : ConceptNames,
     topic : {Loops}, cognitive_state : CognitiveState]

NextTrack ==
    \E p \in 1..NumCallers :
        \/ \E a \in TrackArgs :
              CallTrack(p, MaxCalls, a.student_id, a.concept_id, a.concept_name,
                        a.topic, a.cognitive_state)
        \/ TrackSelect(p)
        \/ TrackUpdate(p)
        \/ TrackCommit(p)

NextTrackSeq ==
    \/ \E a \in SeqArgs :
          CallTrack(1, MaxSeqCalls, a.student_id, a.concept_id, a.concept_name,
                    a.topic, a.cognitive_state)
    \/ TrackSelect(1)
    \/ TrackUpdate(1)
    \/ TrackCommit(1)

SpecTrack == InitTrack /\ [][NextTrack]_vars

SpecTrackSeq == InitTrackSeq /\ [][NextTrackSeq]_vars

\* No call is between its select and its commit.
Quiescent ==
    \A p \in DOMAIN pc : pc[p] \notin {"track_select", "track_update", "track_commit"}

\* C2: once the concurrent calls of a key have all returned, the record of the
\* key shows every one of them: attempts is their number, confused_count and
\* frustrated_count the numbers of CONFUSED and FRUSTRATED calls (stated for
\* the stores that hold one record of the key).
C2_EveryCallReflectedOnce ==
    Quiescent =>
        \A k \in Keys :
            LET rows == select_mastery(concept_mastery, k[1], k[2])
            IN  Cardinality(rows) = 1 =>
                    \A i \in rows :
                        /\ concept_mastery[i].attempts = recorded.done[k].calls
                        /\ concept_mastery[i].confused_count = recorded.done[k].confused
                        /\ concept_mastery[i].frustrated_count = recorded.done[k].frustrated

\* C3: the store holds at most one ConceptMastery record per (student_id, concept_id).
C3_OneRecordPerKey ==
    \A k \in Keys : Cardinality(select_mastery(concept_mastery, k[1], k[2])) <= 1

\* C4: mastery_level of every record is within [0.0, 1.0] after every step.
C4_MasteryWithinRange ==
    \A i \in DOMAIN concept_mastery :
        /\ concept_mastery[i].mastery_level >= 0
        /\ concept_mastery[i].mastery_level <= 100

\* C4: a record created FOCUSED and updated FOCUSED six times: the seventh
\* event met the upper clamp (0.5 + 6 * 0.1 > 1.0).
C4_Witness ==
    \E i \in DOMAIN concept_mastery :
        /\ concept_mastery[i].attempts = 7
        /\ concept_mastery[i].confused_count = 0
        /\ concept_mastery[i].frustrated_count = 0
        /\ concept_mastery[i].mastery_level = 100

\* C5: the attempts stored in a record never decreases from one store state
\* to the next.
C5_AttemptsNeverDecrease ==
    [][ \A i \in DOMAIN concept_mastery :
            concept_mastery'[i].attempts >= concept_mastery[i].attempts ]_vars

----------------------------------------------------------------------------
(* Spec: concurrent requests to POST /analyze, one turn each, each with a  *)
(* session of its own, interleaving at their awaits; the store operations  *)
(* may raise.                                                              *)

\* The signals of the requests: none (FOCUSED), score 6 (CONFUSED), and the
\* frustrated voice (FRUSTRATED).
TurnSignals ==
    { [rephrase_count |-> 0, backspace_count |-> 0, vocal_state |-> None],
      [rephrase_count |-> 2, backspace_count |-> 0, vocal_state |-> "hesitant"],
      [rephrase_count |-> 0, backspace_count |-> 0, vocal_state |-> "frustrated"] }

Payloads ==
    { [session_id |-> "s1", rephrase_count |-> g.rephrase_count,
       backspace_count |-> g.backspace_count, vocal_state |-> g.vocal_state,
       facial_expression |-> None, topic |-> t, history |-> h] :
        g \in TurnSignals, t \in {Absent, Loops}, h \in {"objects", "not_objects"} }

LlmContent == [template |-> "generated", topic |-> NoText]

NodeLoops == KnowledgeGraphNode(node_id(Loops), "concept", Loops, FALSE)

NodeGeneral ==
    KnowledgeGraphNode(node_id(GeneralExploration), "note", GeneralExploration, TRUE)

\* The objects recovered from the generated text: content alone; every key,
\* one node; no cognitiveState, two nodes; "video", which is no response
\* type; a node of type "topic", which is no node type.
Candidates ==
    { [content |-> LlmContent],
      [content |-> LlmContent, responseType |-> "code", cognitiveState |-> "FRUSTRATED",
       knowledgeGraphDelta |-> [nodes |-> <<NodeLoops>>, edges |-> NoEdges]],
      [content |-> LlmContent, responseType |-> "diagram",
       knowledgeGraphDelta |-> [nodes |-> <<NodeLoops, NodeGeneral>>, edges |-> NoEdges]],
      [content |-> LlmContent, responseType |-> "video", cognitiveState |-> "FOCUSED"],
      [content |-> LlmContent, responseType |-> "text", cognitiveState |-> "FOCUSED",
       knowledgeGraphDelta |->
          [nodes |-> <<KnowledgeGraphNode(node_id(Loops), "topic", Loops, FALSE)>>,
           edges |-> NoEdges]] }

\* An earlier turn of s1, answered by the fallback for topic "Loops" in state
\* FOCUSED: the writes its session committed.
EarlierTurn ==
    [payload |-> [session_id |-> "s1", rephrase_count |-> 0, backspace_count |-> 0,
                  vocal_state |-> None, facial_expression |-> None,
                  topic |-> Loops, history |-> "objects"],
     cognitive_state |-> "FOCUSED", topic |-> Loops,
     ai_response |-> [fallback_response(Loops, "FOCUSED") EXCEPT
                         !.metrics = [facial_expression |-> None, vocal_state |-> None,
                                      rephraseCount |-> 0, backspaceCount |-> 0]],
     success |-> 0, node |-> 0, store_failed |-> FALSE, committed |-> FALSE,
     before |-> NoStore]

EarlierWrites ==
    <<db_add("session_transcripts", transcript_row(EarlierTurn)),
      db_add("usage_metrics", metrics_row(EarlierTurn)),
      db_add("concept_mastery",
             initial_mastery("s1", node_id(Loops), Loops, Loops, "FOCUSED"))>>

\* The store is empty, or holds what the earlier turn committed.
Init ==
    /\ signals = NoSignals
    /\ fused = None
    /\ \E writes \in {NoWrites, EarlierWrites} :
          /\ concept_mastery = commit_table("concept_mastery", <<>>, writes)
          /\ session_transcripts = commit_table("session_transcripts", <<>>, writes)
          /\ usage_metrics = commit_table("usage_metrics", <<>>, writes)
    /\ students = <<>>
    /\ session = [p \in 1..NumTurns |-> NoWrites]
    /\ pc = [p \in 1..NumTurns |-> "idle"]
    /\ turn = [p \in 1..NumTurns |-> NoTurn]
    /\ track = [p \in 1..NumTurns |-> NoCall]
    /\ result = [p \in 1..NumTurns |-> NoResult]
    /\ recorded = NoCalls
    /\ faults = 0

Next ==
    \E p \in 1..NumTurns :
        \/ \E payload \in Payloads : Begin(p, payload)
        \/ \E payload \in Payloads : BeginRaises(p, payload)
        \/ \E candidate \in Candidates : Complete(p, candidate)
        \/ CompleteFails(p)
        \/ Persist(p)
        \/ \E stored \in {0, 1} : PersistFails(p, stored)
        \/ TrackSelect(p)
        \/ TrackSelectFail(p)
        \/ TrackUpdate(p)
        \/ TrackUpdateFail(p)
        \/ TrackCommit(p)
        \/ TrackCommitFail(p)
        \/ TrackReturns(p)
        \/ Commit(p)
        \/ CommitFails(p)
        \/ Rollback(p)
        \/ RollbackFails(p)
        \/ OuterRollback(p)
        \/ OuterRollbackFails(p)

Spec == Init /\ [][Next]_vars

\* An AIResponse that passes the schema.
SchemaValid(r) ==
    /\ r.responseType \in ResponseType
    /\ r.cognitiveState \in CognitiveState
    /\ \A i \in DOMAIN r.knowledgeGraphDelta.nodes :
          r.knowledgeGraphDelta.nodes[i].type \in NodeType

\* C1: whatever fails inside a turn, analyze_session hands its caller a
\* schema-valid AIResponse and no exception.
C1_AlwaysAValidResponse ==
    \A p \in DOMAIN pc :
        pc[p] = "done" =>
            /\ result[p].kind = "response"
            /\ SchemaValid(result[p].response)

\* C9: a turn whose generation failed (success = 0) returns the fallback for
\* the context's topic and the fused state: text for FOCUSED, diagram for
\* CONFUSED, code for FRUSTRATED.
C9_GenerationFailureGivesFallback ==
    \A p \in DOMAIN pc :
        (pc[p] = "done" /\ turn[p].success = 0) =>
            /\ result[p].kind = "response"
            /\ result[p].response.cognitiveState = turn[p].cognitive_state
            /\ result[p].response.responseType =
                  (IF turn[p].cognitive_state = "FOCUSED" THEN "text"
                   ELSE IF turn[p].cognitive_state = "CONFUSED" THEN "diagram"
                   ELSE "code")
            /\ result[p].response.content.topic = turn[p].topic

\* C10: a turn in whose persistence step a store operation raised returns
\* the response it had computed, unchanged.
C10_StoreFailureKeepsResponse ==
    \A p \in DOMAIN pc :
        (pc[p] = "done" /\ turn[p].store_failed) =>
            /\ result[p].kind = "response"
            /\ result[p].response = turn[p].ai_response

----------------------------------------------------------------------------
(* SpecFallback: _fallback_response applied to every state and to the      *)
(* topics of at most MaxTopicLen characters.  signals holds the arguments  *)
(* of the call, fused what it returned, pc the position of the caller.     *)

\* The characters of the topics: a capital, a small letter, a space, a
\* double quote.
TopicChars == {"A", "b", " ", "\""}

RECURSIVE texts(_, _)
\* The strings over chars of at most n characters.
texts(chars, n) ==
    IF n = 0 THEN {NoText}
    ELSE LET shorter == texts(chars, n - 1)
         IN  shorter \cup {Append(t, c) : t \in shorter, c \in chars}

FallbackArgs == [topic : texts(TopicChars, MaxTopicLen), cognitive_state : CognitiveState]

\* A caller is about to call with arguments args.
pure_call(args) ==
    /\ signals = args
    /\ fused = None
    /\ pc = "call"
    /\ concept_mastery = <<>>
    /\ session_transcripts = <<>>
    /\ usage_metrics = <<>>
    /\ students = <<>>
    /\ session = <<>>
    /\ turn = <<>>
    /\ track = <<>>
    /\ result = <<>>
    /\ recorded = <<>>
    /\ faults = 0

\* The call returns value.
pure_return(value) ==
    /\ pc = "call"
    /\ fused' = value
    /\ pc' = "returned"
    /\ UNCHANGED <<students, signals, concept_mastery, session_transcripts, usage_metrics,
                   session, turn, track, result, recorded, faults>>

\* The caller's next call, with arguments args.
pure_again(args) ==
    /\ pc = "returned"
    /\ signals' = args
    /\ fused' = None
    /\ pc' = "call"
    /\ UNCHANGED <<students, concept_mastery, session_transcripts, usage_metrics,
                   session, turn, track, result, recorded, faults>>

InitFallback == \E args \in FallbackArgs : pure_call(args)

FallbackReturns == pure_return(fallback_response(signals.topic, signals.cognitive_state))

FallbackAgain == \E args \in FallbackArgs : pure_again(args)

NextFallback == FallbackReturns \/ FallbackAgain

SpecFallback == InitFallback /\ [][NextFallback]_vars

\* C11: for every state and topic the fallback is a schema-valid response of
\* the state passed in, with no edge and one node: a concept, not mastered,
\* labelled with the topic, its id the same whatever the state.
C11_FallbackShape ==
    pc = "returned" =>
        /\ SchemaValid(fused)
        /\ fused.cognitiveState = signals.cognitive_state
        /\ fused.knowledgeGraphDelta.edges = <<>>
        /\ Len(fused.knowledgeGraphDelta.nodes) = 1
        /\ LET node == fused.knowledgeGraphDelta.nodes[1]
           IN  /\ node.type = "concept"
               /\ node.label = signals.topic
               /\ node.mastered = FALSE
               /\ \A other \in CognitiveState :
                     fallback_response(signals.topic, other)
                        .knowledgeGraphDelta.nodes[1].id = node.id

\* C11: the fallback for topic "A b" in state CONFUSED has been returned, its
\* node id "node_a_b".
C11_Witness ==
    /\ pc = "returned"
    /\ signals = [topic |-> <<"A", " ", "b">>, cognitive_state |-> "CONFUSED"]
    /\ fused.knowledgeGraphDelta.nodes[1].id = <<"n", "o", "d", "e", "_", "a", "_", "b">>

----------------------------------------------------------------------------
(* SpecParse: _parse_llm_payload applied to the serialized form of valid   *)
(* responses, to that form with keys left out, and to the objects of       *)
(* Candidates.                                                             *)

RECURSIVE lists(_, _)
\* The sequences of at most n elements of items.
lists(items, n) ==
    IF n = 0 THEN {<<>>}
    ELSE LET shorter == lists(items, n - 1)
         IN  shorter \cup {Append(l, x) : l \in shorter, x \in items}

WireEdges ==
    { [id |-> "e1", source |-> node_id(Loops), target |-> node_id(GeneralExploration),
       label |-> None],
      [id |-> "e2", source |-> node_id(GeneralExploration), target |-> node_id(Loops),
       label |-> "requires"] }

\* The valid responses with metrics m.
ValidResponses(m) ==
    [responseType : ResponseType, content : {LlmContent},
     cognitiveState : CognitiveState,
     knowledgeGraphDelta : [nodes : lists({NodeLoops, NodeGeneral}, MaxNodes),
                            edges : lists(WireEdges, MaxEdges)],
     metrics : {m}]

\* The metrics analyze_session attaches to a response.
SomeMetrics == analytics(NoPayload)

\* The response as the endpoint's response_model writes it: a JSON object
\* keyed by the fields' aliases, enum members by value, None as null.
serialize(r) ==
    [responseType |-> r.responseType,
     content |-> r.content,
     cognitiveState |-> r.cognitiveState,
     knowledgeGraphDelta |->
        [nodes |-> [i \in DOMAIN r.knowledgeGraphDelta.nodes |->
                       LET n == r.knowledgeGraphDelta.nodes[i]
                       IN  [id |-> n.id, type |-> n.type, label |-> n.label,
                            mastered |-> n.mastered]],
         edges |-> [i \in DOMAIN r.knowledgeGraphDelta.edges |->
                       LET e == r.knowledgeGraphDelta.edges[i]
                       IN  [id |-> e.id, source |-> e.source, target |-> e.target,
                            label |-> e.label]]],
     metrics |-> r.metrics]

\* The JSON object without the keys of absent.
without(object, absent) ==
    [k \in DOMAIN object \ absent |-> object[k]]

DefaultedKeys == {"knowledgeGraphDelta", "responseType", "cognitiveState"}

\* The calls of _parse_llm_payload on the serialized form of r, every key
\* present (kind "serialized") or some defaulted keys left out ("partial");
\* has_metrics tells whether r carries metrics.
parse_args(r, absent, default_state, has_metrics) ==
    [kind |-> IF absent = {} THEN "serialized" ELSE "partial",
     has_metrics |-> has_metrics,
     response |-> r,
     candidate |-> without(serialize(r), absent),
     default_state |-> default_state]

InitParse ==
    \/ \E m \in {None}, absent \in SUBSET DefaultedKeys, d \in CognitiveState :
          \E r \in ValidResponses(m) : pure_call(parse_args(r, absent, d, FALSE))
    \/ \E m \in {SomeMetrics}, absent \in SUBSET DefaultedKeys, d \in CognitiveState :
          \E r \in ValidResponses(m) : pure_call(parse_args(r, absent, d, TRUE))
    \/ \E c \in Candidates, d \in CognitiveState :
          pure_call([kind |-> "other", has_metrics |-> FALSE,
                     response |-> NoResponse, candidate |-> c,
                     default_state |-> d])

ParseReturns == pure_return(parse_llm_payload(signals.candidate, signals.default_state))

\* The same text parsed again, for a turn in another state.
ParseAgain ==
    \E d \in CognitiveState \ {signals.default_state} :
        pure_again([signals EXCEPT !.default_state = d])

NextParse == ParseReturns \/ ParseAgain

SpecParse == InitParse /\ [][NextParse]_vars

C13_DefaultsOnlyForAbsentKeys ==
    (pc = "returned" /\ fused.ok) =>
        /\ fused.response.cognitiveState =
              (IF "cognitiveState" \in DOMAIN signals.candidate
               THEN signals.candidate["cognitiveState"] ELSE signals.default_state)
        /\ fused.response.responseType =
              (IF "responseType" \in DOMAIN signals.candidate
               THEN signals.candidate["responseType"] ELSE "text")
        /\ IF "knowledgeGraphDelta" \in DOMAIN signals.candidate
           THEN /\ fused.response.knowledgeGraphDelta.nodes
                      = signals.candidate["knowledgeGraphDelta"].nodes
                /\ fused.response.knowledgeGraphDelta.edges
                      = signals.candidate["knowledgeGraphDelta"].edges
           ELSE /\ fused.response.knowledgeGraphDelta.nodes = <<>>
                /\ fused.response.knowledgeGraphDelta.edges = <<>>

\* C13: an object with none of the three keys has been parsed with fallback
\* state CONFUSED.
C13_Witness ==
    /\ pc = "returned"
    /\ DOMAIN signals.candidate \cap DefaultedKeys = {}
    /\ signals.default_state = "CONFUSED"
    /\ fused.ok
    /\ fused.response.cognitiveState = "CONFUSED"
    /\ fused.response.responseType = "text"
    /\ fused.response.knowledgeGraphDelta = [nodes |-> <<>>, edges |-> <<>>]

----------------------------------------------------------------------------
(* The transitions of one record, under SpecTrackSeq.                      *)

\* Caller p's call returns in this step.
TrackReturnsNow(p) ==
    pc[p] = "track_commit" /\ pc'[p] = "track_done"

\* C14: a call that returns for a key the store held no record of has
\* created one record of the key: attempts 1, mastery 0.5 for FOCUSED, 0.2
\* for CONFUSED, 0.1 for FRUSTRATED, confused_count 1 iff CONFUSED,
\* frustrated_count 1 iff FRUSTRATED.
C14_FirstCallCreates ==
    [][ \A p \in DOMAIN pc :
          LET t == track[p]
              before == select_mastery(concept_mastery, t.student_id, t.concept_id)
              after == select_mastery(concept_mastery', t.student_id, t.concept_id)
          IN  (TrackReturnsNow(p) /\ before = {}) =>
                  /\ Cardinality(after) = 1
                  /\ \A i \in after :
                        LET row == concept_mastery'[i]
                        IN  /\ row.attempts = 1
                            /\ row.mastery_level =
                                  (IF t.cognitive_state = "FOCUSED" THEN 50
                                   ELSE IF t.cognitive_state = "CONFUSED" THEN 20
                                   ELSE 10)
                            /\ row.confused_count =
                                  (IF t.cognitive_state = "CONFUSED" THEN 1 ELSE 0)
                            /\ row.frustrated_count =
                                  (IF t.cognitive_state = "FRUSTRATED" THEN 1 ELSE 0) ]_vars

\* C14: the one call made so far for (s1, node_loops), a FRUSTRATED one, has
\* created the record: attempts 1, mastery 0.1, frustrated_count 1.
C14_Witness ==
    /\ recorded.done[<<"s1", node_id(Loops)>>] =
          [calls |-> 1, confused |-> 0, frustrated |-> 1]
    /\ \E i \in DOMAIN concept_mastery :
          /\ concept_mastery[i].concept_id = node_id(Loops)
          /\ concept_mastery[i].attempts = 1
          /\ concept_mastery[i].mastery_level = 10
          /\ concept_mastery[i].confused_count = 0
          /\ concept_mastery[i].frustrated_count = 1

\* C15: a call that returns for a key the store held one record of has
\* added 1 to attempts, set mastery to min(1.0, m + 0.1) for FOCUSED,
\* max(0.0, m - 0.05) for CONFUSED and max(0.0, m - 0.1) for FRUSTRATED,
\* added 1 to confused_count only for CONFUSED and to frustrated_count only for
\* FRUSTRATED, and left concept_name and topic as they were.
C15_LaterCallUpdates ==
    [][ \A p \in DOMAIN pc :
          LET t == track[p]
              before == select_mastery(concept_mastery, t.student_id, t.concept_id)
          IN  (TrackReturnsNow(p) /\ Cardinality(before) = 1) =>
                  \A i \in before :
                      LET old == concept_mastery[i]
                          new == concept_mastery'[i]
                          m == old.mastery_level
                      IN  /\ new.attempts = old.attempts + 1
                          /\ new.mastery_level =
                                (IF t.cognitive_state = "FOCUSED"
                                 THEN (IF m + 10 > 100 THEN 100 ELSE m + 10)
                                 ELSE IF t.cognitive_state = "CONFUSED"
                                 THEN (IF m - 5 < 0 THEN 0 ELSE m - 5)
                                 ELSE (IF m - 10 < 0 THEN 0 ELSE m - 10))
                          /\ new.confused_count = old.confused_count +
                                (IF t.cognitive_state = "CONFUSED" THEN 1 ELSE 0)
                          /\ new.frustrated_count = old.frustrated_count +
                                (IF t.cognitive_state = "FRUSTRATED" THEN 1 ELSE 0)
                          /\ new.concept_name = old.concept_name
                          /\ new.topic = old.topic ]_vars

\* C15: a record created FOCUSED (0.5) and updated once, CONFUSED: attempts 2,
\* mastery 0.45, confused_count 1, frustrated_count 0.
C15_Witness ==
    \E i \in DOMAIN concept_mastery :
        /\ concept_mastery[i].attempts = 2
        /\ concept_mastery[i].mastery_level = 45
        /\ concept_mastery[i].confused_count = 1
        /\ concept_mastery[i].frustrated_count = 0

----------------------------------------------------------------------------
(* The mastery events of a turn, under Spec.                               *)

\* The turns that returned after a persistence step that committed.
PersistedTurns == {p \in DOMAIN pc : pc[p] = "done" /\ turn[p].committed}

\* The ids of the nodes the response emits.
NodeIds(response) ==
    {response.knowledgeGraphDelta.nodes[i].id :
        i \in DOMAIN response.knowledgeGraphDelta.nodes}

\* No turn is running, and every turn that ran persisted without a store
\* failure a response whose node ids are distinct.
AllPersisted ==
    \A p \in DOMAIN pc :
        /\ pc[p] \in {"idle", "done"}
        /\ pc[p] = "done" =>
              /\ turn[p].committed
              /\ ~turn[p].store_failed
              /\ Cardinality(NodeIds(result[p].response))
                    = Len(result[p].response.knowledgeGraphDelta.nodes)

\* The persisted turns whose response emits the node of key k and is in a
\* state of states.
TurnsOn(k, states) ==
    {p \in PersistedTurns :
        /\ turn[p].payload.session_id = k[1]
        /\ k[2] \in NodeIds(result[p].response)
        /\ result[p].response.cognitiveState \in states}

\* C16: the turns that persisted have applied one mastery event per node
\* they emit, to the key (session_id, node.id) and with the response's
\* cognitiveState, and no other event; and the step in which an event is
\* applied creates or rewrites one record of that key and leaves every
\* record of another key as it was.
C16_OneEventPerNode ==
    [][ /\ AllPersisted' =>
              \A k \in Keys :
                  /\ recorded'.done[k].calls = Cardinality(TurnsOn(k, CognitiveState)')
                  /\ recorded'.done[k].confused = Cardinality(TurnsOn(k, {"CONFUSED"})')
                  /\ recorded'.done[k].frustrated = Cardinality(TurnsOn(k, {"FRUSTRATED"})')
        /\ \A p \in DOMAIN pc :
              TrackReturnsNow(p) =>
                  /\ Len(concept_mastery') \in {Len(concept_mastery), Len(concept_mastery) + 1}
                  /\ \A i \in DOMAIN concept_mastery' :
                        \/ /\ concept_mastery'[i].student_id = track[p].student_id
                           /\ concept_mastery'[i].concept_id = track[p].concept_id
                        \/ /\ i \in DOMAIN concept_mastery
                           /\ concept_mastery'[i] = concept_mastery[i]
                  /\ Cardinality({i \in DOMAIN concept_mastery :
                                     concept_mastery'[i] # concept_mastery[i]})
                        + (Len(concept_mastery') - Len(concept_mastery)) <= 1 ]_vars

\* C16: a turn has persisted a CONFUSED response with two nodes, and each of
\* the two keys has one CONFUSED event.
C16_Witness ==
    \E p \in DOMAIN pc :
        /\ AllPersisted
        /\ pc[p] = "done"
        /\ result[p].response.cognitiveState = "CONFUSED"
        /\ Len(result[p].response.knowledgeGraphDelta.nodes) = 2
        /\ \A k \in {"s1"} \X Concepts :
              recorded.done[k] = [calls |-> 1, confused |-> 1, frustrated |-> 0]

----------------------------------------------------------------------------
(* app/utils/prompt_crafter.py, and SpecPrompt: build_prompt applied to    *)
(* the contexts of every state, last response type, voice and face.        *)

\* MODALITY_DIRECTIVES.get(cognitive_state, (TEXT, ...)): the type and the
\* guidance text, by name.
MODALITY_DIRECTIVES(cognitive_state) ==
    IF cognitive_state = "FOCUSED" THEN <<"text", "explain_in_text">>
    ELSE IF cognitive_state = "CONFUSED" THEN <<"diagram", "use_a_diagram">>
    ELSE IF cognitive_state = "FRUSTRATED" THEN <<"code", "present_code">>
    ELSE <<"text", "clear_text">>

\* A choice that leaves the table's type whenever it was the last one.
preferred_modality_no_repeat(context) ==
    LET base == MODALITY_DIRECTIVES(context.cognitive_state)
    IN  IF context.last_response_type = base[1]
        THEN <<"diagram", "offer_a_visual">>
        ELSE base

\* _preferred_modality(context)
preferred_modality(context) ==
    LET base == MODALITY_DIRECTIVES(context.cognitive_state)
    IN  IF context.last_response_type = base[1] /\ context.cognitive_state = "FOCUSED"
        THEN <<"diagram", "offer_a_visual">>
        ELSE base

\* _parse_response_type(raw): ResponseType(raw), None for no text and for a
\* text that is no value of the enum.
parse_response_type(raw) ==
    IF raw \in ResponseType THEN raw ELSE None

\* build_prompt(context): the fields the prompt is filled with, and the
\* expected modality.
build_prompt(context) ==
    LET preferred == preferred_modality(context)
    IN  [prompt |-> [cognitive_state |-> context.cognitive_state,
                     recommended_modality |-> preferred[1],
                     previous_modality |-> IF context.last_response_type # None
                                           THEN context.last_response_type
                                           ELSE "None yet",
                     vocal |-> IF context.vocal_state # None
                               THEN context.vocal_state ELSE "Not detected",
                     facial |-> IF context.facial_expression # None
                                THEN context.facial_expression ELSE "Not detected",
                     modality_guidance |-> preferred[2]],
         response_type |-> preferred[1]]

\* The values of meta["lastResponseType"]: missing, empty, the three types,
\* and two texts that are no response type.
LastResponseTypes == {None, "", "text", "diagram", "code", "TEXT", "video"}

\* The context _build_cognitive_context assembles, as far as build_prompt
\* chooses by it.
prompt_context(cognitive_state, raw, vocal_state, facial_expression) ==
    [cognitive_state |-> cognitive_state,
     last_response_type |-> parse_response_type(raw),
     vocal_state |-> vocal_state,
     facial_expression |-> facial_expression]

InitPrompt ==
    \E c \in CognitiveState, raw \in LastResponseTypes, v \in Vocals, f \in Facials :
        pure_call(prompt_context(c, raw, v, f))

PromptReturns == pure_return(build_prompt(signals))

\* The learner's next turn, in state c: its last response type is the one
\* this turn expected.
PromptAgain ==
    \E c \in CognitiveState :
        pure_again(prompt_context(c, fused.response_type, signals.vocal_state,
                                  signals.facial_expression))

NextPrompt == PromptReturns \/ PromptAgain

SpecPrompt == InitPrompt /\ [][NextPrompt]_vars

\* C17: the expected modality is diagram for FOCUSED after text, and
\* otherwise text for FOCUSED, diagram for CONFUSED, code for FRUSTRATED;
\* CONFUSED after a diagram stays diagram and FRUSTRATED after code stays code.
C17_ExpectedModality ==
    pc = "returned" =>
        /\ fused.response_type =
              (IF signals.cognitive_state = "FOCUSED" /\ signals.last_response_type = "text"
               THEN "diagram"
               ELSE IF signals.cognitive_state = "FOCUSED" THEN "text"
               ELSE IF signals.cognitive_state = "CONFUSED" THEN "diagram"
               ELSE "code")
        /\ (signals.cognitive_state = "CONFUSED" /\ signals.last_response_type = "diagram")
              => fused.response_type = "diagram"
        /\ (signals.cognitive_state = "FRUSTRATED" /\ signals.last_response_type = "code")
              => fused.response_type = "code"

\* C17: a FRUSTRATED turn after a code response has been given code again.
C17_Witness ==
    /\ pc = "returned"
    /\ signals.cognitive_state = "FRUSTRATED"
    /\ signals.last_response_type = "code"
    /\ fused.response_type = "code"

----------------------------------------------------------------------------
(* _parse_history of app/api/routes/session.py, and SpecHistory: it is     *)
(* applied to the values of meta["history"].  A value is the form of its   *)
(* text (missing, empty, not JSON, JSON that is no array, a JSON array)    *)
(* and, for an array, its entries.                                         *)

\* A JSON object of the array, with the keys it holds.
HistoryObject(has_role, role, has_content, content) ==
    [type |-> "object", has_role |-> has_role, role |-> role,
     has_content |-> has_content, content |-> content]

UserSays == HistoryObject(TRUE, "user", TRUE, <<"h">>)

AssistantSays == HistoryObject(TRUE, "assistant", TRUE, <<" ", "i">>)

BlankEntry == HistoryObject(TRUE, "user", TRUE, <<" ">>)

EmptyObject == HistoryObject(FALSE, "", FALSE, NoText)

\* An entry that is no object: the number 1.
NumberEntry == [type |-> "number", has_role |-> FALSE, role |-> "",
                has_content |-> FALSE, content |-> NoText]

history_value(form, entries) == [form |-> form, entries |-> entries]

\* The values of meta["history"] of a first request: the forms that are no
\* array, and the arrays of at most MaxMixedHistory entries of every kind.
\* Later requests make them longer, up to MaxHistory entries.
HistoryValues ==
    {history_value(form, <<>>) : form \in {"missing", "empty", "not_json", "no_array"}}
    \cup {history_value("array", entries) :
            entries \in lists({UserSays, AssistantSays, BlankEntry, EmptyObject,
                               NumberEntry}, MaxMixedHistory)}

\* content.strip() is not empty
not_blank(content) ==
    \E i \in DOMAIN content : content[i] \notin {" ", "\n", "\t"}

\* data[-n:]
last_entries(data, n) ==
    IF Len(data) <= n THEN data ELSE SubSeq(data, Len(data) - n + 1, Len(data))

\* (role, content) of an entry: entry.get with its defaults
history_pair(entry) ==
    <<IF entry.has_role THEN entry.role ELSE "unknown",
      IF entry.has_content THEN entry.content ELSE NoText>>

\* _parse_history(raw): [] for no text, for a text json.loads rejects and
\* for JSON that is no list; for a list, the pairs of its last 8 entries
\* whose content is not blank.  entry.get on an entry that is no object
\* raises AttributeError, which "except json.JSONDecodeError" lets through.
parse_history(raw) ==
    IF raw.form # "array" THEN [raised |-> FALSE, history |-> <<>>]
    ELSE LET data == last_entries(raw.entries, 8)
         IN  IF \E i \in DOMAIN data : data[i].type # "object"
             THEN [raised |-> TRUE, history |-> <<>>]
             ELSE [raised |-> FALSE,
                   history |-> SelectSeq([i \in DOMAIN data |-> history_pair(data[i])],
                                         LAMBDA pair : not_blank(pair[2]))]

InitHistory == \E raw \in HistoryValues : pure_call(raw)

HistoryReturns == pure_return(parse_history(signals))

\* The next request of the conversation: one more entry in the array.
HistoryAgain ==
    /\ signals.form = "array"
    /\ Len(signals.entries) < MaxHistory
    /\ \E entry \in {UserSays, AssistantSays, BlankEntry} :
          pure_again(history_value("array", Append(signals.entries, entry)))

NextHistory == HistoryReturns \/ HistoryAgain

SpecHistory == InitHistory /\ [][NextHistory]_vars

\* The value is a JSON array whose entries are objects with a role and a content.
WellFormedHistory(raw) ==
    /\ raw.form = "array"
    /\ \A i \in DOMAIN raw.entries :
          /\ raw.entries[i].type = "object"
          /\ raw.entries[i].has_role
          /\ raw.entries[i].has_content

\* C18: _parse_history raises no error, whatever the value; a value that is
\* no well-formed array of {role, content} objects gives the empty history;
\* a well-formed one gives the entries among its last 8 whose content is
\* not blank, in their order (so at most 8).
C18_HistoryNeverRaises ==
    pc = "returned" =>
        /\ ~fused.raised
        /\ ~WellFormedHistory(signals) => fused.history = <<>>
        /\ WellFormedHistory(signals) =>
              /\ Len(fused.history) <= 8
              /\ fused.history =
                    SelectSeq([i \in DOMAIN last_entries(signals.entries, 8) |->
                                  <<last_entries(signals.entries, 8)[i].role,
                                    last_entries(signals.entries, 8)[i].content>>],
                              LAMBDA pair : \E j \in DOMAIN pair[2] : pair[2][j] # " ")

----------------------------------------------------------------------------
(* detect_gaps of app/cognitive_modules/knowledge_gaps.py, and SpecGaps:   *)
(* a reader calls it while one caller's track calls fill the store.        *)
(* signals holds the arguments and all_concepts of the last detect_gaps    *)
(* call, fused the report it returned.                                     *)

RECURSIVE insert_by_mastery(_, _)
\* row placed in the sorted rows, after the rows of the same mastery_level
insert_by_mastery(sorted, row) ==
    IF sorted = <<>> THEN <<row>>
    ELSE IF row.mastery_level < Head(sorted).mastery_level THEN <<row>> \o sorted
    ELSE <<Head(sorted)>> \o insert_by_mastery(Tail(sorted), row)

RECURSIVE order_by_mastery(_)
\* .order_by(ConceptMastery.mastery_level.asc()); rows of equal
\* mastery_level come in the order of their ids.
order_by_mastery(rows) ==
    IF rows = <<>> THEN <<>>
    ELSE insert_by_mastery(order_by_mastery(SubSeq(rows, 1, Len(rows) - 1)),
                           rows[Len(rows)])

\* select(ConceptMastery).where(student_id == ...)[.where(topic == ...)]
\* .order_by(mastery_level.asc()); "if topic" is false for None and for "".
select_concepts(rows, student_id, topic) ==
    order_by_mastery(
        SelectSeq(rows, LAMBDA row :
            /\ row.student_id = student_id
            /\ topic # NoText => row.topic = topic))

\* concept_data of a record
concept_data(concept) ==
    [id |-> concept.concept_id, name |-> concept.concept_name,
     mastery |-> concept.mastery_level, attempts |-> concept.attempts,
     confused_count |-> concept.confused_count,
     frustrated_count |-> concept.frustrated_count]

\* concept_data of each of the records, in their order
concept_datas(concepts) ==
    [i \in DOMAIN concepts |-> concept_data(concepts[i])]

\* concept.mastery_level < 0.4
is_weak(concept) == concept.mastery_level < 40

\* elif concept.mastery_level >= 0.7
is_strong(concept) == ~is_weak(concept) /\ concept.mastery_level >= 70

\* else
is_moderate(concept) == ~is_weak(concept) /\ ~(concept.mastery_level >= 70)

\* concept.confused_count > 2 or concept.frustrated_count > 1
is_struggling(concept) ==
    concept.confused_count > 2 \/ concept.frustrated_count > 1

RECURSIVE sum_mastery(_)
sum_mastery(concepts) ==
    IF concepts = <<>> THEN 0
    ELSE Head(concepts).mastery_level + sum_mastery(Tail(concepts))

\* round(avg_mastery * 100, 1) in tenths of a percent, for mastery levels
\* in hundredths that sum to total over count records (ties to even).
overall_progress(total, count) ==
    LET q == (10 * total) \div count
        r == (10 * total) % count
    IN  IF 2 * r < count THEN q
        ELSE IF 2 * r > count THEN q + 1
        ELSE q + (q % 2)

\* _generate_recommendations(weak, struggling, strong, avg_mastery), the
\* messages by name; avg_mastery is total / count hundredths.  recs holds the
\* tier message when "if not recs" is reached.
generate_recommendations(weak, struggling, strong, total, count) ==
    LET tier == IF total < 30 * count THEN <<"early_stages">>
                ELSE IF total < 50 * count THEN <<"making_progress">>
                ELSE IF total < 70 * count THEN <<"good_momentum">>
                ELSE <<"excellent_progress">>
        recs == tier
                \o (IF weak # <<>> THEN <<"priority_review">> ELSE <<>>)
                \o (IF struggling # <<>> THEN <<"confused_about">> ELSE <<>>)
                \o (IF strong # <<>> THEN <<"mastered">> ELSE <<>>)
    IN  IF recs = <<>> THEN <<"keep_learning">> ELSE recs

\* A report that never filters by topic.
report_of_all_topics(rows, student_id, topic) ==
    LET all_concepts == select_concepts(rows, student_id, NoText)
    IN  [student_id |-> student_id, topic |-> topic,
         total_concepts |-> Len(all_concepts),
         gaps |-> prefix(concept_datas(SelectSeq(all_concepts, is_weak)), 5),
         struggling |-> <<>>, strong |-> <<>>,
         recommendations |-> <<"early_stages">>,
         overall_progress |-> 0]

\* detect_gaps(db, student_id, topic) on the committed rows: the report.
detect_gaps(rows, student_id, topic) ==
    LET all_concepts == select_concepts(rows, student_id, topic)
        weak_concepts == concept_datas(SelectSeq(all_concepts, is_weak))
        strong_concepts == concept_datas(SelectSeq(all_concepts, is_strong))
        moderate_concepts == concept_datas(SelectSeq(all_concepts, is_moderate))
        struggling_concepts == concept_datas(SelectSeq(all_concepts, is_struggling))
    IN  IF all_concepts = <<>>
        THEN [student_id |-> student_id, topic |-> topic, total_concepts |-> 0,
              gaps |-> <<>>, struggling |-> <<>>, strong |-> <<>>,
              recommendations |-> <<"start_learning">>,
              overall_progress |-> 0]
        ELSE [student_id |-> student_id, topic |-> topic,
              total_concepts |-> Len(all_concepts),
              gaps |-> prefix(weak_concepts, 5),
              struggling |-> prefix(struggling_concepts, 5),
              strong |-> prefix(strong_concepts, 3),
              moderate |-> Len(moderate_concepts),
              recommendations |->
                  generate_recommendations(weak_concepts, struggling_concepts,
                      strong_concepts, sum_mastery(all_concepts), Len(all_concepts)),
              overall_progress |->
                  overall_progress(sum_mastery(all_concepts), Len(all_concepts))]

\* No detect_gaps call has been made.
NoGapCall == [student_id |-> None, topic |-> NoText, all_concepts |-> <<>>]

\* A reader's detect_gaps call: the select at its one await reads the
\* committed rows, and the report is computed from them.
DetectGaps(student_id, topic) ==
    /\ signals' = [student_id |-> student_id, topic |-> topic,
                   all_concepts |-> select_concepts(concept_mastery, student_id, topic)]
    /\ fused' = detect_gaps(concept_mastery, student_id, topic)
    /\ UNCHANGED <<students, concept_mastery, session_transcripts, usage_metrics, session, pc,
                   turn, track, result, recorded, faults>>

InitGaps ==
    /\ signals = NoGapCall
    /\ fused = detect_gaps(<<>>, None, NoText)
    /\ concept_mastery = <<>>
    /\ session_transcripts = <<>>
    /\ usage_metrics = <<>>
    /\ students = <<>>
    /\ session = <<NoWrites>>
    /\ pc = <<"idle">>
    /\ turn = <<NoTurn>>
    /\ track = <<NoCall>>
    /\ result = <<NoResult>>
    /\ recorded = NoCalls
    /\ faults = 0

\* The calls that fill the store: one student, every concept and state.
GapTrackArgs ==
    [student_id : {"s1"}, concept_id : Concepts, concept_name : {Loops},
     topic : {Loops}, cognitive_state : CognitiveState]

NextGaps ==
    \/ \E a \in GapTrackArgs :
          CallTrack(1, MaxGapCalls, a.student_id, a.concept_id, a.concept_name,
                    a.topic, a.cognitive_state)
    \/ TrackSelect(1)
    \/ TrackUpdate(1)
    \/ TrackCommit(1)
    \/ \E student_id \in Students, topic \in {NoText} \cup Topics :
          DetectGaps(student_id, topic)

SpecGaps == InitGaps /\ [][NextGaps]_vars

\* C19: a detect_gaps call that finds no record of the student (or none of
\* the topic) writes nothing to the store and returns total_concepts 0,
\* overall_progress 0.0, no gaps, nothing struggling, nothing strong, and at
\* least one recommendation.
C19_NoRecordsReport ==
    [][ (signals' # signals \/ fused' # fused) =>
            /\ UNCHANGED <<concept_mastery, session_transcripts, usage_metrics>>
            /\ signals'.all_concepts = <<>> =>
                  /\ fused'.total_concepts = 0
                  /\ fused'.overall_progress = 0
                  /\ fused'.gaps = <<>>
                  /\ fused'.struggling = <<>>
                  /\ fused'.strong = <<>>
                  /\ fused'.recommendations # <<>> ]_vars

\* C19: the store holds a record of s1 for topic Loops, and the report for
\* s1 and topic General Exploration, which no record has, is the empty one.
C19_Witness ==
    /\ \E i \in DOMAIN concept_mastery : concept_mastery[i].student_id = "s1"
    /\ signals = [student_id |-> "s1", topic |-> GeneralExploration, all_concepts |-> <<>>]
    /\ fused.total_concepts = 0
    /\ fused.recommendations # <<>>

\* C20: for a student with records the recommendations are, in this order:
\* the tier message of the overall progress (< 30%, < 50%, < 70%, else); the
\* weak message iff some mastery is below 0.4; the struggling message iff
\* some confused_count is above 2 or frustrated_count above 1; the strong
\* message iff some mastery is at least 0.7; the default message iff none of
\* these three was added.
C20_RecommendationsInOrder ==
    signals.all_concepts # <<>> =>
        LET concepts == signals.all_concepts
            total == sum_mastery(concepts)
            count == Len(concepts)
            weak == \E i \in DOMAIN concepts : concepts[i].mastery_level < 40
            struggling == \E i \in DOMAIN concepts :
                              \/ concepts[i].confused_count > 2
                              \/ concepts[i].frustrated_count > 1
            strong == \E i \in DOMAIN concepts : concepts[i].mastery_level >= 70
        IN  fused.recommendations =
                <<IF total < 30 * count THEN "early_stages"
                  ELSE IF total < 50 * count THEN "making_progress"
                  ELSE IF total < 70 * count THEN "good_momentum"
                  ELSE "excellent_progress">>
                \o (IF weak THEN <<"priority_review">> ELSE <<>>)
                \o (IF struggling THEN <<"confused_about">> ELSE <<>>)
                \o (IF strong THEN <<"mastered">> ELSE <<>>)
                \o (IF ~weak /\ ~struggling /\ ~strong THEN <<"keep_learning">> ELSE <<>>)

----------------------------------------------------------------------------
(* The counters of a record, under SpecTrack.                              *)

\* C26: in every state of the store, whatever the interleaving of the calls,
\* each record has attempts >= 1 and attempts >= confused_count +
\* frustrated_count.
C26_AttemptsCoverCounters ==
    \A i \in DOMAIN concept_mastery :
        /\ concept_mastery[i].attempts >= 1
        /\ concept_mastery[i].attempts >=
              concept_mastery[i].confused_count + concept_mastery[i].frustrated_count

----------------------------------------------------------------------------
(* The rollback of a turn's persistence step, under Spec.                  *)

\* Request p's persistence handler ends in this step: its rollback returns.
RollbackReturnsNow(p) == pc[p] = "rollback" /\ pc'[p] = "done"

\* C27: when the persistence step of a turn has failed and its rollback
\* returns, none of the turn's writes is committed: with no other request
\* under way, the store holds what it held when the turn began.
C27_RollbackLeavesNoWrites ==
    [][ \A p \in DOMAIN pc :
            (RollbackReturnsNow(p) /\ \A q \in DOMAIN pc \ {p} : pc[q] = "idle") =>
                /\ concept_mastery' = turn[p].before.concept_mastery
                /\ session_transcripts' = turn[p].before.session_transcripts
                /\ usage_metrics' = turn[p].before.usage_metrics ]_vars

----------------------------------------------------------------------------
(* The success flag of the rows a turn stores, under Spec.                 *)

\* The success flags of the transcript and usage-metrics rows committed since
\* request p's turn began.
StoredSuccess(p) ==
    {session_transcripts[i].success :
        i \in Len(turn[p].before.session_transcripts) + 1 .. Len(session_transcripts)}
    \cup {usage_metrics[i].success :
        i \in Len(turn[p].before.usage_metrics) + 1 .. Len(usage_metrics)}

\* Request p was answered with the validated generation output.
ReturnedGenerated(p) ==
    result[p].kind = "response" /\ result[p].response.content.template = "generated"

\* Request p was answered with a fallback response.
ReturnedFallback(p) ==
    result[p].kind = "response" /\ result[p].response.content.template # "generated"

\* C28: the transcript and usage-metrics rows stored for a turn (no other
\* request under way) carry success = 1 exactly when the response returned
\* is the validated generation output, and success = 0 exactly when it is a
\* fallback response.
C28_SuccessFlagMatchesResponse ==
    \A p \in DOMAIN pc :
        (pc[p] = "done" /\ \A q \in DOMAIN pc \ {p} : pc[q] = "idle") =>
            \A flag \in StoredSuccess(p) :
                /\ flag = 1 <=> ReturnedGenerated(p)
                /\ flag = 0 <=> ReturnedFallback(p)

----------------------------------------------------------------------------
(* The last-resort handler of analyze_session, under Spec.                 *)

\* The outer handler of request p ends in this step.
OuterHandlerEndsNow(p) == pc[p] = "outer_rollback" /\ pc'[p] = "done"

\* C29: when the last-resort handler has fired, the caller is handed a
\* response with cognitiveState FOCUSED, responseType text and the single
\* node of topic "General", whatever the request's signals and topic, and
\* the handler writes no transcript, metrics or mastery row.
C29_LastResortResponse ==
    [][ \A p \in DOMAIN pc :
            OuterHandlerEndsNow(p) =>
                /\ result'[p].kind = "response"
                /\ result'[p].response.cognitiveState = "FOCUSED"
                /\ result'[p].response.responseType = "text"
                /\ result'[p].response.knowledgeGraphDelta.nodes =
                      <<KnowledgeGraphNode(node_id(General), "concept", General, FALSE)>>
                /\ UNCHANGED <<concept_mastery, session_transcripts, usage_metrics>> ]_vars

----------------------------------------------------------------------------
(* app/llm_client.py: complete of GoogleAIClient and of OpenRouterClient,  *)
(* and SpecComplete: calls of complete whose requests end in every way.    *)
(* signals holds the call's client and modality, recorded the requests the *)
(* call has issued with what each came to, faults the loop's _attempt, and *)
(* fused what the call hands back.                                         *)

MAX_RETRIES == 2

Clients == {"GoogleAIClient", "OpenRouterClient"}

\* What a request comes to: a 200 response whose body holds the completion
\* text; a response whose status raise_for_status rejects; an exception of
\* the transport (timeout, connection); a 200 response whose body has no
\* completion where the client reads it.
RequestOutcomes ==
    { [kind |-> "ok", text |-> <<"A">>],
      [kind |-> "ok", text |-> <<"B">>],
      [kind |-> "status_error", text |-> NoText],
      [kind |-> "transport_error", text |-> NoText],
      [kind |-> "no_completion", text |-> NoText] }

\* The body of the try block reaches its return.
request_succeeds(outcome) == outcome.kind = "ok"

\* A loop of MAX_RETRIES iterations.
range_without_first_try(attempt) == attempt < MAX_RETRIES

\* for _attempt in range(MAX_RETRIES + 1): _attempt is in the range.
attempt_in_range(attempt) == attempt < MAX_RETRIES + 1

NoCompletion == [kind |-> "pending", content |-> NoText, cause |-> None]

\* LLMResponse(content=..., usage=...)
LLMResponse(content) == [kind |-> "LLMResponse", content |-> content, cause |-> None]

\* raise RuntimeError("... completion failed") from last_error
RuntimeError(last_error) ==
    [kind |-> "RuntimeError", content |-> NoText, cause |-> last_error]

\* complete(prompt, modality=...) is called on a client: the loop starts.
complete(client, modality) ==
    /\ signals' = [client |-> client, modality |-> modality]
    /\ fused' = NoCompletion
    /\ recorded' = <<>>
    /\ faults' = 0
    /\ pc' = "post"
    /\ UNCHANGED <<students, concept_mastery, session_transcripts, usage_metrics, session,
                   turn, track, result>>

InitComplete ==
    /\ \E client \in Clients, modality \in ResponseType :
          /\ signals = [client |-> client, modality |-> modality]
    /\ fused = NoCompletion
    /\ recorded = <<>>
    /\ faults = 0
    /\ pc = "post"
    /\ concept_mastery = <<>>
    /\ session_transcripts = <<>>
    /\ usage_metrics = <<>>
    /\ students = <<>>
    /\ session = <<>>
    /\ turn = <<>>
    /\ track = <<>>
    /\ result = <<>>

\* await self._client.post(...) returns and the try block reaches
\* "return LLMResponse(...)".
PostReturns(outcome) ==
    /\ pc = "post"
    /\ attempt_in_range(faults)
    /\ request_succeeds(outcome)
    /\ recorded' = Append(recorded, outcome)
    /\ fused' = LLMResponse(outcome.text)
    /\ pc' = "returned"
    /\ UNCHANGED <<students, signals, concept_mastery, session_transcripts, usage_metrics,
                   session, turn, track, result, faults>>

\* The try block raises: "except Exception as exc: last_error = exc", and the
\* loop goes to its next iteration or, the range used up, to the raise.
PostRaises(outcome) ==
    /\ pc = "post"
    /\ attempt_in_range(faults)
    /\ ~request_succeeds(outcome)
    /\ recorded' = Append(recorded, outcome)
    /\ faults' = faults + 1
    /\ IF attempt_in_range(faults + 1)
       THEN /\ pc' = "post"
            /\ fused' = [fused EXCEPT !.cause = outcome.kind]
       ELSE /\ pc' = "raised"
            /\ fused' = RuntimeError(outcome.kind)
    /\ UNCHANGED <<students, signals, concept_mastery, session_transcripts, usage_metrics,
                   session, turn, track, result>>

\* The request in flight comes to an end.
Post == \E outcome \in RequestOutcomes : PostReturns(outcome) \/ PostRaises(outcome)

\* The next turn calls complete.
CompleteAgain ==
    /\ pc \in {"returned", "raised"}
    /\ \E client \in Clients, modality \in ResponseType : complete(client, modality)

NextComplete ==
    \/ \E outcome \in RequestOutcomes : PostReturns(outcome)
    \/ \E outcome \in RequestOutcomes : PostRaises(outcome)
    \/ CompleteAgain

\* Every request returns or raises.
SpecComplete == InitComplete /\ [][NextComplete]_vars /\ WF_vars(Post)

\* The requests of recorded that failed.
FailedRequests == {i \in DOMAIN recorded : recorded[i].kind # "ok"}

\* C25: a call of complete issues at most MAX_RETRIES + 1 = 3 requests; it
\* returns the result of the first request that succeeds and issues no
\* request after it; it raises RuntimeError only after 3 requests failed;
\* and, every request returning or raising, it ends.
C25_CompleteRetries ==
    /\ [](/\ Len(recorded) <= MAX_RETRIES + 1
          /\ Len(recorded) <= 3
          /\ pc = "post" => FailedRequests = DOMAIN recorded
          /\ pc = "returned" =>
                /\ FailedRequests = 1 .. Len(recorded) - 1
                /\ fused = LLMResponse(recorded[Len(recorded)].text)
          /\ pc = "raised" =>
                /\ FailedRequests = 1 .. 3
                /\ Len(recorded) = 3
                /\ fused.kind = "RuntimeError")
    /\ [][(pc \in {"returned", "raised"}) => (recorded' = recorded \/ recorded' = <<>>)]_vars
    /\ (pc = "post") ~> (pc \in {"returned", "raised"})

\* C25: two requests failed, the third succeeded, and its text is returned.
C25_Witness ==
    /\ pc = "returned"
    /\ Len(recorded) = 3
    /\ signals.client = "GoogleAIClient"
    /\ recorded[1].kind = "transport_error"
    /\ recorded[2].kind = "status_error"
    /\ fused.content = <<"B">>

----------------------------------------------------------------------------
(* app/api/routes/classroom.py: join_classroom, and SpecJoin: concurrent   *)
(* requests to POST /join, each with a session of its own, interleaving at *)
(* their awaits.  signals holds each request's body and locals, faults the *)
(* number of requests made.                                                *)

\* str.upper(), character by character
upper(text) ==
    [i \in DOMAIN text |->
        IF \E j \in DOMAIN Lower : Lower[j] = text[i]
        THEN Upper[CHOOSE j \in DOMAIN Lower : Lower[j] = text[i]]
        ELSE text[i]]

\* The rows of table classrooms: two active classrooms and an archived one.
Classrooms ==
    << [classroom_id |-> "c1", join_code |-> <<"A", "B">>, is_active |-> 1],
       [classroom_id |-> "c2", join_code |-> <<"C", "D">>, is_active |-> 1],
       [classroom_id |-> "c3", join_code |-> <<"E", "F">>, is_active |-> 0] >>

\* get_classroom_by_join_code(db, join_code): the ids of the rows found.
get_classroom_by_join_code(join_code) ==
    {c \in DOMAIN Classrooms : Classrooms[c].join_code = upper(join_code)}

\* A store without the constraint uq_student_classroom.
no_unique_constraint(rows, row) == TRUE

\* UniqueConstraint('student_id', 'classroom_id'): row can be inserted.
uq_student_classroom(rows, row) ==
    \A i \in DOMAIN rows :
        ~(rows[i].student_id = row.student_id /\ rows[i].classroom_id = row.classroom_id)

\* The bodies of the requests: the code of c1 in lower case, the code of c2,
\* the code of the archived c3, and a code of no classroom.
JoinRequests ==
    [join_code : {<<"a", "b">>, <<"C", "D">>, <<"E", "F">>, <<"Z", "Z">>},
     student_id : Students, student_name : {"Ann"}]

NoJoin == [request |-> [join_code |-> NoText, student_id |-> None, student_name |-> None],
           classroom |-> 0, existing |-> 0]

\* JoinClassroomResponse(...)
JoinClassroomResponse(classroom_id, student_id, already_joined) ==
    [success |-> TRUE, classroom_id |-> classroom_id, student_id |-> student_id,
     already_joined |-> already_joined]

NoJoinResult == [kind |-> "pending", response |-> JoinClassroomResponse(None, None, FALSE)]

\* The exception that leaves join_classroom.
JoinRaised(exception) ==
    [kind |-> exception, response |-> JoinClassroomResponse(None, None, FALSE)]

\* A request enters join_classroom.
JoinCall(p, request) ==
    /\ pc[p] \in {"idle", "done"}
    /\ faults < MaxJoins
    /\ faults' = faults + 1
    /\ signals' = [signals EXCEPT ![p] = [NoJoin EXCEPT !.request = request]]
    /\ result' = [result EXCEPT ![p] = NoJoinResult]
    /\ pc' = [pc EXCEPT ![p] = "join_lookup"]
    /\ UNCHANGED <<students, concept_mastery, session_transcripts, usage_metrics,
                   fused, session, turn, track, recorded>>

\* await get_classroom_by_join_code(...): 404 unless the classroom is found
\* and active.
JoinLookup(p) ==
    /\ pc[p] = "join_lookup"
    /\ LET found == get_classroom_by_join_code(signals[p].request.join_code)
       IN  IF found = {} \/ \E c \in found : Classrooms[c].is_active = 0
           THEN /\ result' = [result EXCEPT ![p] = JoinRaised("HTTPException")]
                /\ pc' = [pc EXCEPT ![p] = "done"]
                /\ UNCHANGED signals
           ELSE /\ signals' = [signals EXCEPT ![p].classroom = CHOOSE c \in found : TRUE]
                /\ pc' = [pc EXCEPT ![p] = "join_select"]
                /\ UNCHANGED result
    /\ UNCHANGED <<students, concept_mastery, session_transcripts, usage_metrics,
                   fused, session, turn, track, recorded, faults>>

\* await db.execute(select(Student).where(student_id == ..., classroom_id ==
\* ...)); scalar_one_or_none(), and the code up to "await db.commit()": the
\* row found is rewritten in the session, or a new row is handed to db.add.
JoinSelect(p) ==
    /\ pc[p] = "join_select"
    /\ LET request == signals[p].request
           classroom == Classrooms[signals[p].classroom]
           found == {i \in DOMAIN students :
                       /\ students[i].student_id = request.student_id
                       /\ students[i].classroom_id = classroom.classroom_id}
       IN  IF Cardinality(found) > 1
           THEN /\ result' = [result EXCEPT ![p] = JoinRaised("MultipleResultsFound")]
                /\ pc' = [pc EXCEPT ![p] = "done"]
                /\ UNCHANGED <<signals, session>>
           ELSE IF found # {}
           THEN LET i == CHOOSE j \in found : TRUE
                IN  /\ signals' = [signals EXCEPT ![p].existing = i]
                    /\ session' = [session EXCEPT ![p] =
                           <<[op |-> "update", table |-> "students", id |-> i,
                              values |-> IF students[i].is_active = 0
                                         THEN [is_active |-> 1,
                                               name |-> request.student_name]
                                         ELSE [name |-> request.student_name]]>>]
                    /\ pc' = [pc EXCEPT ![p] = "join_commit"]
                    /\ UNCHANGED result
           ELSE /\ session' = [session EXCEPT ![p] =
                       <<db_add("students",
                                [student_id |-> request.student_id,
                                 name |-> request.student_name,
                                 classroom_id |-> classroom.classroom_id,
                                 is_active |-> 1])>>]
                /\ pc' = [pc EXCEPT ![p] = "join_commit"]
                /\ UNCHANGED <<signals, result>>
    /\ UNCHANGED <<students, concept_mastery, session_transcripts, usage_metrics,
                   fused, turn, track, recorded, faults>>

\* await db.commit(): the INSERT of a row whose (student_id, classroom_id) the
\* table holds raises IntegrityError, which leaves join_classroom; the
\* session of the request is then rolled back.
JoinCommit(p) ==
    /\ pc[p] = "join_commit"
    /\ LET w == session[p][1]
       IN  IF w.op = "add" /\ ~uq_student_classroom(students, w.values)
           THEN /\ result' = [result EXCEPT ![p] = JoinRaised("IntegrityError")]
                /\ pc' = [pc EXCEPT ![p] = "done"]
                /\ UNCHANGED students
           ELSE /\ students' = commit_table("students", students, session[p])
                /\ pc' = [pc EXCEPT ![p] = "join_refresh"]
                /\ UNCHANGED result
    /\ session' = [session EXCEPT ![p] = NoWrites]
    /\ UNCHANGED <<concept_mastery, session_transcripts, usage_metrics,
                   signals, fused, turn, track, recorded, faults>>

\* await db.refresh(...); return JoinClassroomResponse(...)
JoinRefresh(p) ==
    /\ pc[p] = "join_refresh"
    /\ result' = [result EXCEPT ![p] =
           [kind |-> "response",
            response |-> JoinClassroomResponse(
                             Classrooms[signals[p].classroom].classroom_id,
                             signals[p].request.student_id,
                             signals[p].existing # 0)]]
    /\ pc' = [pc EXCEPT ![p] = "done"]
    /\ UNCHANGED <<students, concept_mastery, session_transcripts, usage_metrics,
                   signals, fused, session, turn, track, recorded, faults>>

\* The table holds no row, or the row of a student removed from c1.
InitJoin ==
    /\ students \in {<<>>, <<[student_id |-> "s1", name |-> "Old",
                              classroom_id |-> "c1", is_active |-> 0]>>}
    /\ signals = [p \in 1..NumJoiners |-> NoJoin]
    /\ result = [p \in 1..NumJoiners |-> NoJoinResult]
    /\ session = [p \in 1..NumJoiners |-> NoWrites]
    /\ pc = [p \in 1..NumJoiners |-> "idle"]
    /\ fused = None
    /\ concept_mastery = <<>>
    /\ session_transcripts = <<>>
    /\ usage_metrics = <<>>
    /\ turn = <<>>
    /\ track = <<>>
    /\ recorded = <<>>
    /\ faults = 0

NextJoin ==
    \E p \in 1..NumJoiners :
        \/ \E request \in JoinRequests : JoinCall(p, request)
        \/ JoinLookup(p)
        \/ JoinSelect(p)
        \/ JoinCommit(p)
        \/ JoinRefresh(p)

SpecJoin == InitJoin /\ [][NextJoin]_vars

\* The rows of (student_id, classroom_id) in a table.
Enrollments(rows, student_id, classroom_id) ==
    {i \in DOMAIN rows :
        rows[i].student_id = student_id /\ rows[i].classroom_id = classroom_id}

----------------------------------------------------------------------------
(* app/api/routes/classroom.py: get_classroom_analytics, and SpecReport:   *)
(* the report of a classroom over stores that join_classroom, the turns of *)
(* the students and track_concept_interaction have filled.  Levels and     *)
(* averages are in hundredths; signals holds the request, fused the report.*)

\* get_classroom_by_id(db, classroom_id): the ids of the rows found.
get_classroom_by_id(classroom_id) ==
    {c \in DOMAIN Classrooms : Classrooms[c].classroom_id = classroom_id}

\* The places where the report rounds an average.
RoundingSites == Students \cup {"concepts", "class"}

\* round(total / count, 2) in hundredths.  The double of an average halfway
\* between two hundredths lies just under or just over it: up tells which.
round(total, count, up) ==
    LET q == total \div count
        r == total % count
    IN  IF 2 * r < count THEN q
        ELSE IF 2 * r > count THEN q + 1
        ELSE IF up THEN q + 1 ELSE q

RECURSIVE sum_of(_, _)
\* func.sum(column) over rows
sum_of(rows, column) ==
    IF rows = <<>> THEN 0
    ELSE Head(rows)[column] + sum_of(Tail(rows), column)

\* func.sum(case((ConceptMastery.mastery_level < 0.4, 1), else_=0))
struggling_in(rows) ==
    Cardinality({i \in DOMAIN rows : rows[i].mastery_level < 40})

\* func.sum(case((ConceptMastery.mastery_level >= 0.7, 1), else_=0))
mastered_in(rows) ==
    Cardinality({i \in DOMAIN rows : rows[i].mastery_level >= 70})

\* The roster query without "where(Student.is_active == 1)".
enrolled_students(rows, classroom_id) ==
    LET enrolled(s) == s.classroom_id = classroom_id
    IN  SelectSeq(rows, enrolled)

\* select(Student).where(Student.classroom_id == classroom_id)
\*     .where(Student.is_active == 1)
active_students(rows, classroom_id) ==
    LET active(s) == s.classroom_id = classroom_id /\ s.is_active = 1
    IN  SelectSeq(rows, active)

\* .where(ConceptMastery.student_id.in_(student_ids))
mastery_of_roster(rows, student_ids) ==
    LET matched(r) == r.student_id \in student_ids
    IN  SelectSeq(rows, matched)

\* .where(ConceptMastery.student_id == student.student_id)
mastery_of_student(rows, student_id) ==
    LET matched(r) == r.student_id = student_id
    IN  SelectSeq(rows, matched)

\* The rows of the concepts query: one ConceptMasteryStats per group of
\* .group_by(concept_id, concept_name, topic).  The query fixes no order, so
\* the entries of the list are kept as a set.
concept_stats(rows, up) ==
    { LET group(r) == /\ r.concept_id = k[1]
                      /\ r.concept_name = k[2]
                      /\ r.topic = k[3]
          grouped == SelectSeq(rows, group)
      IN  [concept_id |-> k[1],
           concept_name |-> k[2],
           topic |-> k[3],
           avg_mastery |-> round(sum_of(grouped, "mastery_level"), Len(grouped), up),
           total_attempts |-> sum_of(grouped, "attempts"),
           students_struggling |-> struggling_in(grouped),
           students_mastered |-> mastered_in(grouped)] :
      k \in {<<rows[i].concept_id, rows[i].concept_name, rows[i].topic>> : i \in DOMAIN rows} }

\* The row of the confused-topics query for one topic.
topic_row(rows, topic) ==
    LET of_topic(r) == r.topic = topic
        grouped == SelectSeq(rows, of_topic)
    IN  [topic |-> topic,
         total |-> sum_of(grouped, "mastery_level"),
         count |-> Len(grouped),
         confusion_total |-> sum_of(grouped, "confused_count")
                             + sum_of(grouped, "frustrated_count")]

\* .order_by(func.avg(mastery_level).asc(), func.sum(confused_count +
\* frustrated_count).desc()): a may not come after b.
topic_before(a, b) ==
    \/ a.total * b.count < b.total * a.count
    \/ /\ a.total * b.count = b.total * a.count
       /\ a.confusion_total > b.confusion_total

\* The lists the confused-topics query may return: the topics of the rows in
\* an order the ORDER BY allows, cut by .limit(5).
most_confused_topics(rows) ==
    LET topics == {rows[i].topic : i \in DOMAIN rows}
        n == Cardinality(topics)
        orders == {o \in [1..n -> topics] :
                      /\ \A i, j \in 1..n : i # j => o[i] # o[j]
                      /\ \A i, j \in 1..n :
                            i < j => ~topic_before(topic_row(rows, o[j]),
                                                   topic_row(rows, o[i]))}
    IN  {SubSeq(o, 1, IF n < 5 THEN n ELSE 5) : o \in orders}

\* The session ids of the students: the student id, alone or followed by a
\* suffix.
SessionSuffixes == {"", "_a", "_b", "_%"}

\* SessionTranscript.session_id.like(f"{student_id}%"), over the session ids
\* above.
like(session_id, student_id) ==
    \E rest \in SessionSuffixes : session_id = student_id \o rest

\* select(func.count(func.distinct(SessionTranscript.session_id)))
\*     .where(SessionTranscript.session_id.like(f"{student.student_id}%"))
session_count(transcripts, student_id) ==
    Cardinality({transcripts[i].session_id : i \in
                    {j \in DOMAIN transcripts : like(transcripts[j].session_id, student_id)}})

\* select(func.count(func.distinct(SessionTranscript.session_id)))
\*     .where(SessionTranscript.session_id.in_([f"{sid}_%" for sid in student_ids]))
total_sessions(transcripts, student_ids) ==
    Cardinality({transcripts[i].session_id : i \in
                    {j \in DOMAIN transcripts :
                        transcripts[j].session_id \in {sid \o "_%" : sid \in student_ids}}})

\* The body of "for student in students": the StudentAnalytics appended for
\* the student, or nothing.
student_analytics(student, mastery, transcripts, up) ==
    LET rows == mastery_of_student(mastery, student.student_id)
        total == sum_of(rows, "mastery_level")
        confused == sum_of(rows, "confused_count")
        frustrated == sum_of(rows, "frustrated_count")
        needs_help == total < 50 * Len(rows) \/ confused > 5 \/ frustrated > 3
    IN  IF rows # <<>> /\ needs_help
        THEN <<[student_id |-> student.student_id,
                student_name |-> student.name,
                total_sessions |-> session_count(transcripts, student.student_id),
                avg_mastery |-> round(total, Len(rows), up),
                concepts_struggling |-> struggling_in(rows),
                concepts_mastered |-> mastered_in(rows),
                total_confused_count |-> confused,
                total_frustrated_count |-> frustrated,
                needs_help |-> TRUE]>>
        ELSE <<>>

\* key=lambda s: (s.avg_mastery, -s.total_confused_count -
\* s.total_frustrated_count): the key of a is less than the key of b.
help_key_less(a, b) ==
    \/ a.avg_mastery < b.avg_mastery
    \/ /\ a.avg_mastery = b.avg_mastery
       /\ 0 - a.total_confused_count - a.total_frustrated_count
            < 0 - b.total_confused_count - b.total_frustrated_count

RECURSIVE insert_by_help(_, _)
\* entry placed in the sorted entries, after the entries of the same key
insert_by_help(sorted, entry) ==
    IF sorted = <<>> THEN <<entry>>
    ELSE IF help_key_less(entry, Head(sorted)) THEN <<entry>> \o sorted
    ELSE <<Head(sorted)>> \o insert_by_help(Tail(sorted), entry)

RECURSIVE sort_by_help(_)
\* students_needing_help.sort(key=...): a stable sort
sort_by_help(entries) ==
    IF entries = <<>> THEN <<>>
    ELSE insert_by_help(sort_by_help(SubSeq(entries, 1, Len(entries) - 1)),
                        entries[Len(entries)])

RECURSIVE students_needing_help(_, _, _, _)
\* The list the loop over the roster builds, before the sort.
students_needing_help(roster, mastery, transcripts, up) ==
    IF roster = <<>> THEN <<>>
    ELSE student_analytics(Head(roster), mastery, transcripts,
                           Head(roster).student_id \in up)
         \o students_needing_help(Tail(roster), mastery, transcripts, up)

\* ClassroomAnalytics(...)
ClassroomAnalytics(classroom_id, total, concepts, topics, needing_help, avg, sessions) ==
    [kind |-> "response",
     classroom_id |-> classroom_id,
     total_students |-> total,
     active_students |-> total,
     concepts |-> concepts,
     most_confused_topics |-> topics,
     students_needing_help |-> needing_help,
     avg_class_mastery |-> avg,
     total_sessions |-> sessions]

\* HTTPException(status_code=404, detail="Classroom not found")
ClassroomNotFound ==
    [ClassroomAnalytics(None, 0, {}, <<>>, <<>>, 0, 0) EXCEPT !.kind = "HTTPException"]

\* get_classroom_analytics over a roster: what it returns when the
\* confused-topics query returns topics and the halfway averages of the
\* sites in up round up.
analytics_of(classroom_id, roster, mastery, transcripts, topics, up) ==
    LET student_ids == {roster[i].student_id : i \in DOMAIN roster}
        matched == mastery_of_roster(mastery, student_ids)
    IN  IF student_ids = {}
        THEN ClassroomAnalytics(classroom_id, 0, {}, <<>>, <<>>, 0, 0)
        ELSE ClassroomAnalytics(
                 classroom_id,
                 Len(roster),
                 concept_stats(matched, "concepts" \in up),
                 topics,
                 sort_by_help(students_needing_help(roster, mastery, transcripts, up)),
                 IF matched = <<>> THEN 0
                 ELSE round(sum_of(matched, "mastery_level"), Len(matched), "class" \in up),
                 total_sessions(transcripts, student_ids))

\* The reports get_classroom_analytics(classroom_id, db) may return over the
\* committed rows, one per order the confused-topics query may return, or
\* the exception it raises.
get_classroom_analytics(classroom_id, roster_rows, mastery, transcripts, up) ==
    IF get_classroom_by_id(classroom_id) = {} THEN {ClassroomNotFound}
    ELSE LET roster == active_students(roster_rows, classroom_id)
             student_ids == {roster[i].student_id : i \in DOMAIN roster}
         IN  {analytics_of(classroom_id, roster, mastery, transcripts, topics, up) :
                 topics \in IF student_ids = {} THEN {<<>>}
                            ELSE most_confused_topics(
                                     mastery_of_roster(mastery, student_ids))}

RECURSIVE record_after(_, _)
\* The row of a key after further calls of track_concept_interaction, one
\* after the other, in the cognitive states given.
record_after(row, states) ==
    IF states = <<>> THEN row
    ELSE record_after(set_columns(row, mastery_updates(row, Head(states))), Tail(states))

\* The row of a key that calls in the states of history have created and
\* updated.
tracked(student_id, concept_name, topic, history) ==
    record_after(initial_mastery(student_id, node_id(concept_name), concept_name,
                                 topic, Head(history)),
                 Tail(history))

\* The rows the store may hold of each student and concept: none, or the row
\* after one of a few histories.  s2 has met the concept Loops under the
\* topic Loops or, having named no topic, under General Exploration.
TrackedRows ==
    LET F == "FOCUSED"
        C == "CONFUSED"
        R == "FRUSTRATED"
    IN  << {<<>>, <<tracked("s1", Loops, Loops, <<F, C>>)>>,
                  <<tracked("s1", Loops, Loops, <<C, C, C, C, C, C>>)>>},
           {<<>>, <<tracked("s1", GeneralExploration, GeneralExploration, <<F, C>>)>>,
                  <<tracked("s1", GeneralExploration, GeneralExploration,
                            <<F, F, F, F, F, F>>)>>},
           {<<>>, <<tracked("s1", General, Loops, <<R>>)>>},
           {<<>>, <<tracked("s2", Loops, Loops, <<C>>)>>,
                  <<tracked("s2", Loops, GeneralExploration, <<C>>)>>},
           {<<>>, <<tracked("s2", GeneralExploration, GeneralExploration, <<F, C>>)>>} >>

\* The rosters of classroom c1: each student has not joined, has joined, or
\* has joined and been removed.
Rosters ==
    LET row(student_id, name) ==
            {<<>>} \cup {<<[student_id |-> student_id, name |-> name,
                           classroom_id |-> "c1", is_active |-> a]>> : a \in {0, 1}}
    IN  {a \o b : a \in row("s1", "Ann"), b \in row("s2", "Bob")}

\* The session ids of the transcripts stored by the turns of the students.
Transcripts ==
    LET rows(ids) == [i \in DOMAIN ids |-> [session_id |-> ids[i]]]
    IN  {rows(<<>>), rows(<<"s1">>), rows(<<"s1_a", "s1_a", "s2">>),
         rows(<<"s1_%", "s2_b", "s1_a">>)}

NoReportCall == [classroom_id |-> None, up |-> {}]

InitReport ==
    /\ students \in Rosters
    /\ \E a \in TrackedRows[1], b \in TrackedRows[2], c \in TrackedRows[3],
          d \in TrackedRows[4], e \in TrackedRows[5] :
          concept_mastery = a \o b \o c \o d \o e
    /\ session_transcripts \in Transcripts
    /\ usage_metrics = <<>>
    /\ signals = NoReportCall
    /\ fused = ClassroomNotFound
    /\ session = <<NoWrites>>
    /\ pc = "idle"
    /\ turn = <<>>
    /\ track = <<>>
    /\ result = <<>>
    /\ recorded = <<>>
    /\ faults = 0

\* A teacher's GET /{classroom_id}/analytics: the queries read the committed
\* rows, and the report is built from them.
Report(classroom_id, up) ==
    /\ pc = "idle"
    /\ signals' = [classroom_id |-> classroom_id, up |-> up]
    /\ fused' \in get_classroom_analytics(classroom_id, students, concept_mastery,
                                         session_transcripts, up)
    /\ pc' = "reported"
    /\ UNCHANGED <<students, concept_mastery, session_transcripts, usage_metrics,
                   session, turn, track, result, recorded, faults>>

\* The response is sent; the next request may come.
ReportAgain ==
    /\ pc = "reported"
    /\ pc' = "idle"
    /\ signals' = NoReportCall
    /\ fused' = ClassroomNotFound
    /\ UNCHANGED <<students, concept_mastery, session_transcripts, usage_metrics,
                   session, turn, track, result, recorded, faults>>

NextReport ==
    \/ \E classroom_id \in {"c1", "c3", "c9"}, up \in SUBSET RoundingSites :
          Report(classroom_id, up)
    \/ ReportAgain

SpecReport == InitReport /\ [][NextReport]_vars

\* The classroom of the request exists and has no active student.
EmptyRoster ==
    /\ get_classroom_by_id(signals.classroom_id) # {}
    /\ \A i \in DOMAIN students :
          ~(students[i].classroom_id = signals.classroom_id /\ students[i].is_active = 1)

\* C24: the report of an existing classroom without active students is
\* returned, not raised, and holds total_students 0, no concepts, no
\* most_confused_topics, no students_needing_help, avg_class_mastery 0.0 and
\* total_sessions 0, whatever mastery rows and transcripts the store holds.
C24_EmptyRosterReport ==
    (pc = "reported" /\ EmptyRoster) =>
        /\ fused.kind = "response"
        /\ fused.total_students = 0
        /\ fused.concepts = {}
        /\ fused.most_confused_topics = <<>>
        /\ fused.students_needing_help = <<>>
        /\ fused.avg_class_mastery = 0
        /\ fused.total_sessions = 0

\* C24: the report of c1 was returned while its only students had been
\* removed and the store held their mastery rows and transcripts.
C24_Witness ==
    /\ pc = "reported"
    /\ signals.classroom_id = "c1"
    /\ EmptyRoster
    /\ \E i \in DOMAIN students : students[i].is_active = 0
    /\ \E i \in DOMAIN concept_mastery :
          \E j \in DOMAIN students :
              concept_mastery[i].student_id = students[j].student_id
    /\ \E i \in DOMAIN session_transcripts : session_transcripts[i].session_id = "s1_%"
    /\ fused.kind = "response"
    /\ fused.total_students = 0

\* The ids of the active students of the classroom of the request.
RosterIds ==
    {students[i].student_id : i \in
        {j \in DOMAIN students : /\ students[j].classroom_id = signals.classroom_id
                                  /\ students[j].is_active = 1}}

\* The mastery rows of the roster with the concept id given.
RosterRecords(concept_id) ==
    LET of_concept(r) == r.student_id \in RosterIds /\ r.concept_id = concept_id
    IN  SelectSeq(concept_mastery, of_concept)

\* C22: the concepts of a returned report hold exactly one entry for each
\* concept id among the mastery rows of the roster and none for any other;
\* the entry's total_attempts is the sum of attempts, its students_struggling
\* the number of rows under 0.4 and its students_mastered the number of rows
\* at or over 0.7, over all rows of the roster with that concept id.
C22_OneEntryPerConcept ==
    (pc = "reported" /\ fused.kind = "response") =>
        /\ \A e \in fused.concepts : RosterRecords(e.concept_id) # <<>>
        /\ \A i \in DOMAIN concept_mastery :
              LET rows == RosterRecords(concept_mastery[i].concept_id)
                  entries == {e \in fused.concepts :
                                 e.concept_id = concept_mastery[i].concept_id}
              IN  rows # <<>> =>
                      /\ Cardinality(entries) = 1
                      /\ \A e \in entries :
                            /\ e.total_attempts = sum_of(rows, "attempts")
                            /\ e.students_struggling = struggling_in(rows)
                            /\ e.students_mastered = mastered_in(rows)

\* The distinct session ids of the transcripts that the report counts for
\* some student of the roster.
RosterSessions ==
    {session_transcripts[i].session_id : i \in
        {j \in DOMAIN session_transcripts :
            \E s \in RosterIds : like(session_transcripts[j].session_id, s)}}

\* C23: total_sessions of a returned report is the number of distinct
\* session ids of the transcripts that belong to the students of the roster,
\* and is not smaller than the total_sessions of any student listed in the
\* report.
C23_TotalSessionsOfRoster ==
    (pc = "reported" /\ fused.kind = "response") =>
        /\ fused.total_sessions = Cardinality(RosterSessions)
        /\ \A i \in DOMAIN fused.students_needing_help :
              fused.total_sessions >= fused.students_needing_help[i].total_sessions

\* The mastery rows of a student.
RecordsOf(student_id) == mastery_of_student(concept_mastery, student_id)

\* avgMastery < 0.5 or totalConfused > 5 or totalFrustrated > 3, for a
\* student with mastery rows.
NeedsHelp(student_id) ==
    LET rows == RecordsOf(student_id)
    IN  /\ rows # <<>>
        /\ \/ sum_of(rows, "mastery_level") < 50 * Len(rows)
           \/ sum_of(rows, "confused_count") > 5
           \/ sum_of(rows, "frustrated_count") > 3

\* Student a may be listed before student b: its average mastery is lower,
\* or the same with no fewer confused and frustrated interactions.
MayPrecede(a, b) ==
    LET ra == RecordsOf(a)
        rb == RecordsOf(b)
        avg_a == sum_of(ra, "mastery_level") * Len(rb)
        avg_b == sum_of(rb, "mastery_level") * Len(ra)
        struggles(rows) == sum_of(rows, "confused_count") + sum_of(rows, "frustrated_count")
    IN  \/ avg_a < avg_b
        \/ avg_a = avg_b /\ struggles(ra) >= struggles(rb)

\* C21: students_needing_help of a returned report lists, once each, exactly
\* the students of the roster whose average mastery is under 0.5 or who have
\* more than 5 confused or more than 3 frustrated interactions, in ascending
\* order of average mastery, students of the same average in descending order
\* of confused plus frustrated interactions.
C21_StudentsNeedingHelp ==
    (pc = "reported" /\ fused.kind = "response") =>
        LET listed == fused.students_needing_help
        IN  /\ {listed[i].student_id : i \in DOMAIN listed}
                 = {s \in RosterIds : NeedsHelp(s)}
            /\ \A i, j \in DOMAIN listed :
                  i < j => /\ listed[i].student_id # listed[j].student_id
                           /\ MayPrecede(listed[i].student_id, listed[j].student_id)

====
